---- MODULE Spec2Model ----
(***************************************************************************)
(* Media engine core: the session state machine (media_session/state.rs), *)
(* the session registry (media_session/manager.rs), the engine facade     *)
(* (media_engine/engine.rs), the pipeline and its A/V sync controller     *)
(* (media_pipeline/pipeline.rs, sync.rs) and the buffer manager's ring    *)
(* buffer, frame cache and memory accounting (buffer_manager/ring.rs,     *)
(* cache.rs, manager.rs).                                                  *)
(*                                                                         *)
(* Durations are whole seconds, volumes are tenths (with NaN kept apart),  *)
(* a SessionId is a small integer; SessionId::new() draws a random UUID,   *)
(* modelled as the least id never handed out before (ids are opaque, so    *)
(* which fresh id is drawn makes no difference to any operation).          *)
(***************************************************************************)
EXTENDS Integers, Sequences, FiniteSets, TLC

\* ------------------------------------------------------------------ bounds
NumIds == 2
MaxPos == 1
MaxEvents == 1
MaxManaged == 1
MaxSpan == 2
MaxCapacity == 2
MaxLen == 2
MaxWritten == 3
MaxFrames == 2
MaxTimestamp == 2
MaxAccess == 4
MaxMemory == 6
MaxRequest == 3
MaxHeld == 2
MaxJitter == 3
MaxPacketize == 2
NumThreads == 2
MaxApplied == 3
MaxNow == 2
\* the width of usize, scaled down from 64 bits
UsizeBits == 5

\* MediaEngineConfig.max_sessions, as set by test_session_limit
max_sessions == 1

VARIABLES
    sessions,       \* MediaEngineImpl.sessions : SessionId -> SessionContext
    mgr_sessions,   \* SessionManager.sessions  : SessionId -> MediaSession
    allocated,      \* the SessionIds SessionId::new() has returned so far
    events,         \* the engine event channel (event_tx -> event_rx)
    last,           \* the last call and what it returned
    st_self,        \* receiver of a can_transition_to call
    st_new,         \* argument of a can_transition_to call
    st_called,      \* whether can_transition_to has been called
    st_answer,      \* what the call returned (FALSE before the call)
    pl,             \* a MediaPipeline used on its own
    pl_loading,     \* the source of the load_source call under way ("None": no such call)
    pl_last,        \* the last pipeline call and what it returned
    sy,             \* an AVSyncController
    sy_last,        \* the last sync_frame call and its decision
    rb,             \* a RingBuffer
    rb_written,     \* history: every byte write() has accepted, in order
    rb_read,        \* history: every byte read() has returned, in order
    rb_last,        \* the last ring buffer call and what it returned
    fc,             \* a FrameCache
    fc_order,       \* history: the cached timestamps, least recently used first
    fc_last,        \* the last frame cache call and what it returned
    bm,             \* a BufferManager
    overflow_checks,\* whether the build traps integer overflow (debug) or wraps (release)
    bm_held,        \* the sizes charged for the buffers the caller still holds
    bm_last,        \* the last buffer manager call and what it returned
    jb,             \* a JitterBuffer
    jb_script,      \* the packets a sender has yet to insert, in arrival order
    jb_out,         \* history: the sequence numbers get_next has returned, in order
    jb_last,        \* the last jitter buffer call and what it returned
    pk,             \* an RTPPacketizer
    pk_calls,       \* how many packetize calls it has served
    pk_last,        \* the last packetizer or to_bytes call and what it returned
    cs_state,       \* the state of one MediaSession that several threads transition
    cs_threads,     \* where each of those threads is in transition_state
    cs_last,        \* the last transition_state step and what it did
    en_threads,     \* where each thread calling the engine is in create/destroy_session
    pb_state,       \* the state of one session that several threads play, pause and seek
    pb_applied,     \* history: the states set_state has stored in it, in order
    pb_events,      \* the engine event channel of that session
    pb_threads,     \* where each of those threads is in play, pause or seek
    pl_config,      \* the PipelineConfig a pipeline was created with
    ms,             \* a MediaSession with its updated_at timestamp
    ms_now,         \* SystemTime::now()
    ms_last         \* the last call on that session and what it returned

engine_vars == <<sessions, mgr_sessions, allocated, events, last>>
state_vars == <<st_self, st_new, st_called, st_answer>>
pipeline_vars == <<pl, pl_loading, pl_last>>
sync_vars == <<sy, sy_last>>
ring_vars == <<rb, rb_written, rb_read, rb_last>>
cache_vars == <<fc, fc_order, fc_last>>
manager_vars == <<bm, overflow_checks, bm_held, bm_last>>
jitter_vars == <<jb, jb_script, jb_out, jb_last>>
packetizer_vars == <<pk, pk_calls, pk_last>>
session_thread_vars == <<cs_state, cs_threads, cs_last>>
engine_thread_vars == <<en_threads>>
thread_vars == <<session_thread_vars, engine_thread_vars>>
playback_thread_vars == <<pb_state, pb_applied, pb_events, pb_threads>>
config_vars == <<pl_config>>
stamp_vars == <<ms, ms_now, ms_last>>
other_vars == <<playback_thread_vars, config_vars, stamp_vars>>
vars == <<sessions, mgr_sessions, allocated, events, last, st_self, st_new, st_called, st_answer,
          pl, pl_loading, pl_last, sy, sy_last, rb, rb_written, rb_read, rb_last,
          fc, fc_order, fc_last, bm, overflow_checks, bm_held, bm_last,
          jb, jb_script, jb_out, jb_last, pk, pk_calls, pk_last,
          cs_state, cs_threads, cs_last, en_threads,
          pb_state, pb_applied, pb_events, pb_threads, pl_config, ms, ms_now, ms_last>>

\* ------------------------------------------------------------ domain values
Ids == 1..NumIds
Positions == 0..MaxPos
Rates == {1}
Progresses == {0}
Sources == {"Url", "Buffer"}
Errors == {"CodecError", "NetworkError"}

Kinds == {"Idle", "Loading", "Ready", "Playing", "Paused", "Seeking", "Ended", "Error"}

Idle == [kind |-> "Idle"]
Loading(source, progress) == [kind |-> "Loading", source |-> source, progress |-> progress]
Ready(duration) == [kind |-> "Ready", duration |-> duration]
Playing(position, rate) == [kind |-> "Playing", position |-> position, rate |-> rate]
Paused(position) == [kind |-> "Paused", position |-> position]
Seeking(target) == [kind |-> "Seeking", target |-> target]
Ended == [kind |-> "Ended"]
Error(error) == [kind |-> "Error", error |-> error]

SessionState ==
    {Idle, Ended}
    \cup {Loading("Url", p) : p \in Progresses}
    \cup {Ready(d) : d \in Positions}
    \cup {Playing(p, r) : p \in Positions, r \in Rates}
    \cup {Paused(p) : p \in Positions}
    \cup {Seeking(t) : t \in Positions}
    \cup {Error(e) : e \in Errors}

\* ------------------------------------------------- session state machine
can_transition_to_drop(self, new_state) ==
    LET f == self.kind
        t == new_state.kind
    IN  CASE t = "Error" -> TRUE
          [] f = "Idle" /\ t = "Loading" -> TRUE
          [] f = "Loading" /\ t = "Ready" -> TRUE
          [] f = "Ready" /\ t = "Playing" -> TRUE
          [] f = "Ready" /\ t = "Paused" -> TRUE
          [] f = "Playing" /\ t = "Paused" -> TRUE
          [] f = "Playing" /\ t = "Seeking" -> TRUE
          [] f = "Playing" /\ t = "Ended" -> TRUE
          [] f = "Paused" /\ t = "Playing" -> TRUE
          [] f = "Paused" /\ t = "Seeking" -> TRUE
          [] f = "Seeking" /\ t = "Playing" -> TRUE
          [] OTHER -> FALSE

can_transition_to_replay(self, new_state) ==
    LET f == self.kind
        t == new_state.kind
    IN  CASE t = "Error" -> TRUE
          [] f = "Idle" /\ t = "Loading" -> TRUE
          [] f = "Loading" /\ t = "Ready" -> TRUE
          [] f = "Ready" /\ t = "Playing" -> TRUE
          [] f = "Ready" /\ t = "Paused" -> TRUE
          [] f = "Playing" /\ t = "Paused" -> TRUE
          [] f = "Playing" /\ t = "Seeking" -> TRUE
          [] f = "Playing" /\ t = "Ended" -> TRUE
          [] f = "Paused" /\ t = "Playing" -> TRUE
          [] f = "Paused" /\ t = "Seeking" -> TRUE
          [] f = "Seeking" /\ t = "Playing" -> TRUE
          [] f = "Seeking" /\ t = "Paused" -> TRUE
          [] f = "Ended" /\ t = "Playing" -> TRUE
          [] OTHER -> FALSE

can_transition_to(self, new_state) ==
    LET f == self.kind
        t == new_state.kind
    IN  CASE t = "Error" -> TRUE
          [] f = "Idle" /\ t = "Loading" -> TRUE
          [] f = "Loading" /\ t = "Ready" -> TRUE
          [] f = "Ready" /\ t = "Playing" -> TRUE
          [] f = "Ready" /\ t = "Paused" -> TRUE
          [] f = "Playing" /\ t = "Paused" -> TRUE
          [] f = "Playing" /\ t = "Seeking" -> TRUE
          [] f = "Playing" /\ t = "Ended" -> TRUE
          [] f = "Paused" /\ t = "Playing" -> TRUE
          [] f = "Paused" /\ t = "Seeking" -> TRUE
          [] f = "Seeking" /\ t = "Playing" -> TRUE
          [] f = "Seeking" /\ t = "Paused" -> TRUE
          [] OTHER -> FALSE

\* From<SessionState> for shared_types::SessionState: the payload is dropped
into_kind(state) ==
    CASE state.kind = "Idle" -> "Idle"
      [] state.kind = "Loading" -> "Loading"
      [] state.kind = "Ready" -> "Ready"
      [] state.kind = "Playing" -> "Playing"
      [] state.kind = "Paused" -> "Paused"
      [] state.kind = "Seeking" -> "Seeking"
      [] state.kind = "Ended" -> "Ended"
      [] state.kind = "Error" -> "Error"

\* --------------------------------------------------------- initial values
NoCall == [op |-> "none", id |-> 0, arg |-> 0, result |-> "none",
           from |-> "none", to |-> "none", entered |-> <<>>]

EmptyMap == [k \in {} |-> 0]

engine_init ==
    /\ sessions = EmptyMap
    /\ mgr_sessions = EmptyMap
    /\ allocated = {}
    /\ events = <<>>
    /\ last = NoCall

state_init ==
    /\ st_self = Idle
    /\ st_new = Idle
    /\ st_called = FALSE
    /\ st_answer = FALSE

\* ------------------------------------------------ media_pipeline, as built
\* Option<Arc<MediaPipeline>>::None
None == [is_some |-> FALSE]

\* Some(MediaPipeline::new(..)): a pipeline in state Idle with no source and
\* nothing in either output channel
MediaPipeline_new ==
    [is_some |-> TRUE, state |-> "Idle", source |-> "None",
     video_rx |-> <<>>, audio_rx |-> <<>>]

NoPipelineCall == [op |-> "none", source |-> "None", position |-> 0, result |-> "none"]

pipeline_init ==
    /\ pl = MediaPipeline_new
    /\ pl_loading = "None"
    /\ pl_last = NoPipelineCall

\* milliseconds
DEFAULT_SYNC_THRESHOLD == 40

AVSyncController_new == [clock |-> 0, threshold |-> DEFAULT_SYNC_THRESHOLD]

Display == [kind |-> "Display", duration |-> 0]
Drop == [kind |-> "Drop", duration |-> 0]
Wait(duration) == [kind |-> "Wait", duration |-> duration]

NoSyncCall ==
    [op |-> "none", video_timestamp |-> 0, audio_timestamp |-> 0,
     decision |-> [kind |-> "none", duration |-> 0]]

sync_init ==
    /\ sy = AVSyncController_new
    /\ sy_last = NoSyncCall

\* ------------------------------------------------ buffer_manager, as built
\* the storage is indexed from 0, as the Vec is
RingBuffer_new(capacity) ==
    [buffer |-> [i \in 0..(capacity - 1) |-> 0], capacity |-> capacity,
     read_pos |-> 0, write_pos |-> 0, count |-> 0]

NoRingCall == [op |-> "none", len |-> 0, result |-> "none", n |-> 0]

ring_init ==
    /\ rb = RingBuffer_new(0)
    /\ rb_written = <<>>
    /\ rb_read = <<>>
    /\ rb_last = NoRingCall

FrameCache_new(max_frames) ==
    [frames |-> EmptyMap, max_frames |-> max_frames, access_counter |-> 0]

NoCacheCall == [op |-> "none", timestamp |-> 0, result |-> "none", evicted |-> {}, width |-> 0]

cache_init ==
    /\ fc = FrameCache_new(0)
    /\ fc_order = <<>>
    /\ fc_last = NoCacheCall

BufferManager_new(config) == [config |-> config, current_memory |-> 0]

NoManagerCall == [op |-> "none", requested |-> 0, result |-> "none", before |-> 0]

manager_init ==
    /\ bm = BufferManager_new([max_memory |-> 0])
    /\ overflow_checks = TRUE
    /\ bm_held = <<>>
    /\ bm_last = NoManagerCall

\* --------------------------------------------- webrtc_integration, as built
Some(value) == [is_some |-> TRUE, value |-> value]

JitterBuffer_new(capacity) ==
    [capacity |-> capacity, packets |-> EmptyMap, next_expected_seq |-> None]

NoJitterCall == [op |-> "none", sequence_number |-> 0, payload |-> <<>>, result |-> "none"]

jitter_init ==
    /\ jb = JitterBuffer_new(0)
    /\ jb_script = <<>>
    /\ jb_out = <<>>
    /\ jb_last = NoJitterCall

\* a u32 as its two 16-bit halves, most significant first
U32(hi, lo) == [hi |-> hi, lo |-> lo]

RTPPacket(payload, sequence_number, timestamp, ssrc) ==
    [payload |-> payload, sequence_number |-> sequence_number,
     timestamp |-> timestamp, ssrc |-> ssrc]

RTPPacketizer_new(ssrc) == [sequence_number |-> 0, ssrc |-> ssrc]

NoRtpCall ==
    [op |-> "none", payload |-> <<>>, timestamp |-> U32(0, 0), packets |-> <<>>,
     packet |-> RTPPacket(<<>>, 0, U32(0, 0), U32(0, 0)), bytes |-> <<>>]

packetizer_init ==
    /\ pk = RTPPacketizer_new(U32(0, 1))
    /\ pk_calls = 0
    /\ pk_last = NoRtpCall

rtc_vars == <<jitter_vars, packetizer_vars>>

rtc_init == jitter_init /\ packetizer_init

\* --------------------------------------------------- threads, as spawned
Threads == 1..NumThreads

\* a thread outside any call
Resting == [pc |-> "idle", new_state |-> Idle, id |-> 0]

NoThreadCall ==
    [op |-> "none", thread |-> 0, from |-> Idle, to |-> Idle, result |-> "none"]

\* the session of test_concurrent_state_transitions: created, loaded, Ready
session_thread_init ==
    /\ cs_state = Ready(0)
    /\ cs_threads = [t \in Threads |-> Resting]
    /\ cs_last = NoThreadCall

engine_thread_init == en_threads = [t \in Threads |-> Resting]

thread_init == session_thread_init /\ engine_thread_init

\* a fresh session nobody has played yet
playback_thread_init ==
    /\ pb_state = Idle
    /\ pb_applied = <<>>
    /\ pb_events = <<>>
    /\ pb_threads = [t \in Threads |-> Resting]

PipelineConfig(sync_threshold) == [sync_threshold |-> sync_threshold]

PipelineConfig_default == PipelineConfig(DEFAULT_SYNC_THRESHOLD)

config_init == pl_config = PipelineConfig_default

\* MediaSession::new at time now
MediaSession_at(now) == [state |-> Idle, created_at |-> now, updated_at |-> now]

NoStampCall == [op |-> "none", new_state |-> Idle, result |-> "none", at |-> 0]

stamp_init ==
    /\ ms = MediaSession_at(0)
    /\ ms_now = 0
    /\ ms_last = NoStampCall

other_init == playback_thread_init /\ config_init /\ stamp_init

media_vars ==
    <<pipeline_vars, sync_vars, ring_vars, cache_vars, manager_vars, rtc_vars, thread_vars, other_vars>>
idle_vars == <<state_vars, media_vars>>

media_init ==
    pipeline_init /\ sync_init /\ ring_init /\ cache_init /\ manager_init /\ rtc_init /\ thread_init /\ other_init

\* ---------------------------------- specification of can_transition_to
check_transition ==
    /\ ~st_called
    /\ st_called' = TRUE
    /\ st_answer' = can_transition_to(st_self, st_new)
    /\ UNCHANGED <<st_self, st_new>>

InitState ==
    /\ st_self \in SessionState
    /\ st_new \in SessionState
    /\ st_called = FALSE
    /\ st_answer = FALSE
    /\ engine_init
    /\ media_init

NextState == check_transition /\ UNCHANGED <<engine_vars, media_vars>>

SpecState == InitState /\ [][NextState]_vars

\* ------------------------------------------------------- session registry
\* SessionId::new: a fresh id
SessionId_new(used) == CHOOSE id \in Ids \ used : \A other \in Ids \ used : id <= other

\* MediaSession::new
MediaSession_new(id) == [id |-> id, state |-> Idle]

\* MediaSession::set_state on the session object registered under id
set_state_all(m, id, new_state) == [x \in DOMAIN m |-> [m[x] EXCEPT !.state = new_state]]

set_state(m, id, new_state) == [m EXCEPT ![id].state = new_state]

map_insert(m, k, v) == [x \in DOMAIN m \cup {k} |-> IF x = k THEN v ELSE m[x]]
map_remove(m, k) == [x \in DOMAIN m \ {k} |-> m[x]]

Call(op, id, arg, result) ==
    [op |-> op, id |-> id, arg |-> arg, result |-> result,
     from |-> "none", to |-> "none", entered |-> <<>>]

\* -------------------------------------------------------------- the engine
PlaybackStateChanged(session_id, state) ==
    [type |-> "PlaybackStateChanged", session_id |-> session_id, state |-> state]

emit_event_lost(q, event) == q

emit_event(q, event) == Append(q, event)

session_limit_reached_off_by_one(n) == n > max_sessions

session_limit_reached(n) == n >= max_sessions

create_session ==
    IF session_limit_reached(Cardinality(DOMAIN sessions))
    THEN /\ last' = Call("create_session", 0, 0, "ResourceExhausted")
         /\ UNCHANGED <<sessions, mgr_sessions, allocated, events>>
    ELSE /\ Ids \ allocated # {}
         /\ LET id == SessionId_new(allocated)
            IN  /\ allocated' = allocated \cup {id}
                /\ mgr_sessions' = map_insert(mgr_sessions, id, MediaSession_new(id))
                /\ sessions' = map_insert(sessions, id, [session |-> id, pipeline |-> None])
                /\ last' = Call("create_session", id, 0, "Ok")
                /\ UNCHANGED events


load_source(id, source) ==
    IF id \notin DOMAIN sessions
    THEN /\ last' = Call("load_source", id, source, "SessionNotFound")
         /\ UNCHANGED <<sessions, mgr_sessions, allocated, events>>
    ELSE /\ sessions' = [sessions EXCEPT ![id].pipeline = MediaPipeline_new]
         /\ last' = Call("load_source", id, source, "Ok")
         /\ UNCHANGED <<mgr_sessions, allocated, events>>

play(id) ==
    IF id \notin DOMAIN sessions
    THEN /\ last' = Call("play", id, 0, "SessionNotFound")
         /\ UNCHANGED <<sessions, mgr_sessions, allocated, events>>
    ELSE /\ Len(events) < MaxEvents
         /\ mgr_sessions' = set_state(mgr_sessions, sessions[id].session, Playing(0, 1))
         /\ events' = emit_event(events, PlaybackStateChanged(id, Playing(0, 1)))
         /\ last' = [Call("play", id, 0, "Ok") EXCEPT !.entered = <<Playing(0, 1)>>]
         /\ UNCHANGED <<sessions, allocated>>

pause(id) ==
    IF id \notin DOMAIN sessions
    THEN /\ last' = Call("pause", id, 0, "SessionNotFound")
         /\ UNCHANGED <<sessions, mgr_sessions, allocated, events>>
    ELSE LET position == 0
         IN  /\ Len(events) < MaxEvents
             /\ mgr_sessions' = set_state(mgr_sessions, sessions[id].session, Paused(position))
             /\ events' = emit_event(events, PlaybackStateChanged(id, Paused(position)))
             /\ last' = [Call("pause", id, 0, "Ok") EXCEPT !.entered = <<Paused(position)>>]
             /\ UNCHANGED <<sessions, allocated>>

seek(id, position) ==
    IF id \notin DOMAIN sessions
    THEN /\ last' = Call("seek", id, position, "SessionNotFound")
         /\ UNCHANGED <<sessions, mgr_sessions, allocated, events>>
    ELSE LET seeking == set_state(mgr_sessions, sessions[id].session, Seeking(position))
         IN  /\ Len(events) < MaxEvents
             /\ mgr_sessions' = set_state(seeking, sessions[id].session, Playing(position, 1))
             /\ events' = emit_event(events, PlaybackStateChanged(id, Playing(position, 1)))
             /\ last' = [Call("seek", id, position, "Ok")
                           EXCEPT !.entered = <<Seeking(position), Playing(position, 1)>>]
             /\ UNCHANGED <<sessions, allocated>>

\* volumes: [nan |-> TRUE] or a finite value in tenths
NaN == [nan |-> TRUE, tenths |-> 0]
Vol(tenths) == [nan |-> FALSE, tenths |-> tenths]
Volumes == {NaN} \cup {Vol(t) : t \in {-1, 0, 10, 11}}

\* (0.0..=1.0).contains(&volume)
volume_in_range_exclusive(volume) == ~volume.nan /\ 0 <= volume.tenths /\ volume.tenths < 10

volume_in_range(volume) == ~volume.nan /\ 0 <= volume.tenths /\ volume.tenths <= 10

set_volume(id, volume) ==
    /\ last' = Call("set_volume", id, volume,
                    IF ~volume_in_range(volume) THEN "InvalidParameter"
                    ELSE IF id \notin DOMAIN sessions THEN "SessionNotFound"
                    ELSE "Ok")
    /\ UNCHANGED <<sessions, mgr_sessions, allocated, events>>

get_video_frame(id) ==
    /\ last' = Call("get_video_frame", id, 0,
                    IF id \notin DOMAIN sessions THEN "SessionNotFound"
                    ELSE IF sessions[id].pipeline.is_some THEN "NotImplemented"
                    ELSE "InvalidState")
    /\ UNCHANGED <<sessions, mgr_sessions, allocated, events>>

get_audio_samples(id, count) ==
    /\ last' = Call("get_audio_samples", id, count,
                    IF id \notin DOMAIN sessions THEN "SessionNotFound"
                    ELSE IF sessions[id].pipeline.is_some THEN "NotImplemented"
                    ELSE "InvalidState")
    /\ UNCHANGED <<sessions, mgr_sessions, allocated, events>>

destroy_session(id) ==
    IF id \notin DOMAIN sessions
    THEN /\ last' = Call("destroy_session", id, 0, "SessionNotFound")
         /\ UNCHANGED <<sessions, mgr_sessions, allocated, events>>
    ELSE /\ sessions' = map_remove(sessions, id)
         /\ mgr_sessions' = map_remove(mgr_sessions, id)
         /\ last' = Call("destroy_session", id, 0, "Ok")
         /\ UNCHANGED <<allocated, events>>

\* the subscriber takes the oldest event off the channel
event_recv ==
    /\ events # <<>>
    /\ events' = Tail(events)
    /\ last' = Call("event_recv", 0, 0, "Ok")
    /\ UNCHANGED <<sessions, mgr_sessions, allocated>>

Init == engine_init /\ state_init /\ media_init

Next ==
    \/ create_session /\ UNCHANGED idle_vars
    \/ \E id \in Ids, source \in Sources : load_source(id, source) /\ UNCHANGED idle_vars
    \/ \E id \in Ids : play(id) /\ UNCHANGED idle_vars
    \/ \E id \in Ids : pause(id) /\ UNCHANGED idle_vars
    \/ \E id \in Ids, position \in Positions : seek(id, position) /\ UNCHANGED idle_vars
    \/ \E id \in Ids, volume \in Volumes : set_volume(id, volume) /\ UNCHANGED idle_vars
    \/ \E id \in Ids : get_video_frame(id) /\ UNCHANGED idle_vars
    \/ \E id \in Ids, count \in {1} : get_audio_samples(id, count) /\ UNCHANGED idle_vars
    \/ \E id \in Ids : destroy_session(id) /\ UNCHANGED idle_vars
    \/ event_recv /\ UNCHANGED idle_vars

Spec == Init /\ [][Next]_vars

\* ------------------------------------ the session registry used directly
create ==
    /\ Ids \ allocated # {}
    /\ Cardinality(DOMAIN mgr_sessions) < MaxManaged
    /\ LET id == SessionId_new(allocated)
       IN  /\ allocated' = allocated \cup {id}
           /\ mgr_sessions' = map_insert(mgr_sessions, id, MediaSession_new(id))
           /\ last' = Call("create", id, 0, "Ok")
    /\ UNCHANGED <<sessions, events>>

destroy(id) ==
    /\ mgr_sessions' = map_remove(mgr_sessions, id)
    /\ last' = Call("destroy", id, 0, "Ok")
    /\ UNCHANGED <<sessions, allocated, events>>

transition_state_unchecked(id, new_state) ==
    IF id \notin DOMAIN mgr_sessions
    THEN /\ last' = Call("transition_state", id, new_state, "CodecError")
         /\ UNCHANGED <<sessions, mgr_sessions, allocated, events>>
    ELSE LET current_state == mgr_sessions[id].state
         IN  IF ~can_transition_to(current_state, new_state)
             THEN /\ last' = [Call("transition_state", id, new_state, "InvalidStateTransition")
                                EXCEPT !.from = into_kind(current_state),
                                       !.to = into_kind(new_state)]
                  /\ mgr_sessions' = [mgr_sessions EXCEPT ![id].state = new_state]
                  /\ UNCHANGED <<sessions, allocated, events>>
             ELSE /\ mgr_sessions' = [mgr_sessions EXCEPT ![id].state = new_state]
                  /\ last' = Call("transition_state", id, new_state, "Ok")
                  /\ UNCHANGED <<sessions, allocated, events>>

transition_state(id, new_state) ==
    IF id \notin DOMAIN mgr_sessions
    THEN /\ last' = Call("transition_state", id, new_state, "CodecError")
         /\ UNCHANGED <<sessions, mgr_sessions, allocated, events>>
    ELSE LET current_state == mgr_sessions[id].state
         IN  IF ~can_transition_to(current_state, new_state)
             THEN /\ last' = [Call("transition_state", id, new_state, "InvalidStateTransition")
                                EXCEPT !.from = into_kind(current_state),
                                       !.to = into_kind(new_state)]
                  /\ UNCHANGED <<sessions, mgr_sessions, allocated, events>>
             ELSE /\ mgr_sessions' = [mgr_sessions EXCEPT ![id].state = new_state]
                  /\ last' = Call("transition_state", id, new_state, "Ok")
                  /\ UNCHANGED <<sessions, allocated, events>>

get_state(id) ==
    /\ last' = IF id \notin DOMAIN mgr_sessions
               THEN Call("get_state", id, 0, "CodecError")
               ELSE Call("get_state", id, mgr_sessions[id].state, "Ok")
    /\ UNCHANGED <<sessions, mgr_sessions, allocated, events>>

NextManager ==
    \/ create /\ UNCHANGED idle_vars
    \/ \E id \in Ids : destroy(id) /\ UNCHANGED idle_vars
    \/ \E id \in Ids, new_state \in SessionState :
          transition_state(id, new_state) /\ UNCHANGED idle_vars
    \/ \E id \in Ids : get_state(id) /\ UNCHANGED idle_vars

SpecManager == Init /\ [][NextManager]_vars

\* ================================================================ claims
\* the legal-transition table, as the set of (from, to) kinds
LegalEdges ==
    {<<"Idle", "Loading">>, <<"Loading", "Ready">>,
     <<"Ready", "Playing">>, <<"Ready", "Paused">>,
     <<"Playing", "Paused">>, <<"Playing", "Seeking">>, <<"Playing", "Ended">>,
     <<"Paused", "Playing">>, <<"Paused", "Seeking">>,
     <<"Seeking", "Playing">>, <<"Seeking", "Paused">>}

Legal(from, to) == to = "Error" \/ <<from, to>> \in LegalEdges

StateOf(id) == mgr_sessions[id].state

KindsOf(seq) == [i \in 1..Len(seq) |-> seq[i].kind]

\* C1: for every pair of states, whatever their payloads, can_transition_to
\* answers true exactly when the target is Error or the pair of kinds is one
\* of the eleven edges of the legal-transition table.
C1_TransitionTable ==
    st_called => (st_answer <=> Legal(st_self.kind, st_new.kind))

C1_Witness ==
    /\ st_called
    /\ st_answer
    /\ st_self = Seeking(0)
    /\ st_new = Paused(MaxPos)

\* C2: play succeeds only from Ready or Paused and then leaves the session
\* Playing, pause succeeds only from Playing and then leaves it Paused; in any
\* other state they fail with InvalidStateTransition and change nothing.
C2_PlayPauseGuarded ==
    [][\A id \in DOMAIN sessions :
         /\ (last'.op = "play" /\ last'.id = id) =>
               IF StateOf(id).kind \in {"Ready", "Paused"}
               THEN last'.result = "Ok" /\ mgr_sessions'[id].state.kind = "Playing"
               ELSE /\ last'.result = "InvalidStateTransition"
                    /\ mgr_sessions'[id].state = StateOf(id)
         /\ (last'.op = "pause" /\ last'.id = id) =>
               IF StateOf(id).kind = "Playing"
               THEN last'.result = "Ok" /\ mgr_sessions'[id].state.kind = "Paused"
               ELSE /\ last'.result = "InvalidStateTransition"
                    /\ mgr_sessions'[id].state = StateOf(id)]_vars

\* C3: load_source on an Idle session succeeds, takes the session through
\* Loading to Ready and binds a pipeline to it; on a session that is not Idle
\* it fails with InvalidStateTransition.
C3_LoadSourceReady ==
    [][\A id \in DOMAIN sessions :
         (last'.op = "load_source" /\ last'.id = id) =>
            IF StateOf(id).kind = "Idle"
            THEN /\ last'.result = "Ok"
                 /\ KindsOf(last'.entered) = <<"Loading", "Ready">>
                 /\ mgr_sessions'[id].state.kind = "Ready"
                 /\ sessions'[id].pipeline.is_some
            ELSE last'.result = "InvalidStateTransition"]_vars

\* C4: a seek issued while Paused or Playing enters Seeking{position} and
\* ends in the kind of state it started from, carrying the new position.
C4_SeekReturnsToPriorState ==
    [][\A id \in DOMAIN sessions :
         (/\ last'.op = "seek"
          /\ last'.id = id
          /\ last'.result = "Ok"
          /\ StateOf(id).kind \in {"Playing", "Paused"}) =>
            /\ last'.entered # <<>>
            /\ last'.entered[1] = Seeking(last'.arg)
            /\ mgr_sessions'[id].state.kind = StateOf(id).kind
            /\ mgr_sessions'[id].state.position = last'.arg]_vars

\* C5: create_session fails with ResourceExhausted exactly when the number of
\* live sessions already equals max_sessions, otherwise it returns an id never
\* returned before whose session is Idle; the number of live sessions never
\* exceeds max_sessions and a successful destroy_session leaves a free slot.
C5_SessionLimit ==
    [][/\ last'.op = "create_session" =>
            IF Cardinality(DOMAIN sessions) = max_sessions
            THEN last'.result = "ResourceExhausted" /\ sessions' = sessions
            ELSE /\ last'.result = "Ok"
                 /\ last'.id \notin allocated
                 /\ DOMAIN sessions' = DOMAIN sessions \cup {last'.id}
                 /\ mgr_sessions'[last'.id].state = Idle
       /\ Cardinality(DOMAIN sessions') <= max_sessions
       /\ (last'.op = "destroy_session" /\ last'.result = "Ok") =>
            Cardinality(DOMAIN sessions') < max_sessions]_vars

C5_Witness ==
    /\ last.op = "create_session"
    /\ last.result = "ResourceExhausted"
    /\ Cardinality(DOMAIN sessions) = max_sessions
    /\ Cardinality(allocated) > max_sessions

FacadeOps ==
    {"load_source", "play", "pause", "seek", "set_volume",
     "get_video_frame", "get_audio_samples", "destroy_session"}

\* C6: every facade operation called with an id that is not live fails with
\* SessionNotFound and changes nothing.
C6_UnknownSessionNotFound ==
    [][(last'.op \in FacadeOps /\ last'.id \notin DOMAIN sessions) =>
          /\ last'.result = "SessionNotFound"
          /\ UNCHANGED <<sessions, mgr_sessions, events>>]_vars

\* C7: transition_state on an existing session stores the new state when the
\* transition is legal; otherwise it returns InvalidStateTransition carrying
\* the kind of the current state and the kind of the requested state, and
\* leaves the session as it was.
C7_TransitionState ==
    [][\A id \in DOMAIN mgr_sessions :
         (last'.op = "transition_state" /\ last'.id = id) =>
            IF Legal(StateOf(id).kind, last'.arg.kind)
            THEN /\ last'.result = "Ok"
                 /\ mgr_sessions' = [mgr_sessions EXCEPT ![id].state = last'.arg]
            ELSE /\ last'.result = "InvalidStateTransition"
                 /\ last'.from = StateOf(id).kind
                 /\ last'.to = last'.arg.kind
                 /\ mgr_sessions' = mgr_sessions]_vars

C7_Witness ==
    /\ last.op = "transition_state"
    /\ last.result = "InvalidStateTransition"
    /\ last.from = "Idle"
    /\ last.to = "Playing"
    /\ last.id \in DOMAIN mgr_sessions
    /\ StateOf(last.id) = Idle

\* C8: under transition_state calls a session that is Ended can only become
\* Error, a session that is Error stays Error, and a session that has left
\* Idle never is Idle again.
C8_TerminalStates ==
    [][\A id \in DOMAIN mgr_sessions \cap DOMAIN mgr_sessions' :
         LET from == StateOf(id).kind
             to == mgr_sessions'[id].state.kind
             succeeded == /\ last'.op = "transition_state"
                          /\ last'.id = id
                          /\ last'.result = "Ok"
         IN  /\ from = "Ended" => to \in {"Ended", "Error"}
             /\ from = "Error" => to = "Error"
             /\ from # "Idle" => to # "Idle"
             /\ (succeeded /\ from \in {"Ended", "Error"}) => last'.arg.kind = "Error"]_vars

C8_Witness ==
    /\ last.op = "transition_state"
    /\ last.result = "InvalidStateTransition"
    /\ last.from = "Ended"
    /\ last.to = "Playing"
    /\ last.id \in DOMAIN mgr_sessions
    /\ StateOf(last.id) = Ended

Announce(id, entered) == [i \in 1..Len(entered) |-> PlaybackStateChanged(id, entered[i])]

UnitInterval == {Vol(t) : t \in 0..10}

\* C10: on a live session set_volume succeeds exactly for volumes in
\* [0.0, 1.0], both ends included, fails with InvalidParameter otherwise, and
\* never changes the session's state.
C10_SetVolume ==
    [][\A id \in DOMAIN sessions :
         (last'.op = "set_volume" /\ last'.id = id) =>
            /\ last'.result = (IF last'.arg \in UnitInterval THEN "Ok" ELSE "InvalidParameter")
            /\ UNCHANGED <<sessions, mgr_sessions, events>>]_vars

C10_Witness ==
    /\ last.op = "set_volume"
    /\ last.id \in DOMAIN sessions
    /\ last.arg = Vol(10)
    /\ last.result = "Ok"

Pulls == {"get_video_frame", "get_audio_samples"}

\* the output channel of a pipeline a pull operation reads
OutputQueue(pipeline, op) ==
    IF op = "get_video_frame" THEN pipeline.video_rx ELSE pipeline.audio_rx

\* C11: get_video_frame and get_audio_samples on a live session with a
\* pipeline hand out the next queued frame or buffer when the pipeline's
\* output queue holds one and report Unavailable when it is empty, and leave
\* the session and its state as they were.
C11_PullFrameOrUnavailable ==
    [][\A id \in DOMAIN sessions :
         (last'.op \in Pulls /\ last'.id = id /\ sessions[id].pipeline.is_some) =>
            /\ last'.result =
                  (IF OutputQueue(sessions[id].pipeline, last'.op) = <<>>
                   THEN "Unavailable" ELSE "Ok")
            /\ UNCHANGED <<sessions, mgr_sessions>>]_vars

\* --------------------------------------------- the pipeline used directly
PipelineCall(op, source, position, result) ==
    [op |-> op, source |-> source, position |-> position, result |-> result]

loadable(state) == state = "Idle" \/ state = "Stopped"

seekable_running_only(state) == state = "Running"

seekable(state) == state = "Running" \/ state = "Ready"

\* load_source up to the point where it gives up the state lock: the state
\* is Loading and other callers can run before the source is stored
MediaPipeline_load_source(source) ==
    IF ~loadable(pl.state)
    THEN /\ pl_last' = PipelineCall("load_source", source, 0, "InvalidStateTransition")
         /\ UNCHANGED <<pl, pl_loading>>
    ELSE /\ pl' = [pl EXCEPT !.state = "Loading"]
         /\ pl_loading' = source
         /\ pl_last' = PipelineCall("load_source", source, 0, "Pending")

\* the rest of load_source: store the source, become Ready, return Ok
load_source_store ==
    /\ pl_loading # "None"
    /\ pl' = [pl EXCEPT !.source = pl_loading, !.state = "Ready"]
    /\ pl_loading' = "None"
    /\ pl_last' = PipelineCall("load_source", pl_loading, 0, "Ok")

start ==
    IF pl.state # "Ready"
    THEN /\ pl_last' = PipelineCall("start", "None", 0, "InvalidStateTransition")
         /\ UNCHANGED <<pl, pl_loading>>
    ELSE /\ pl' = [pl EXCEPT !.state = "Running"]
         /\ pl_last' = PipelineCall("start", "None", 0, "Ok")
         /\ UNCHANGED pl_loading

stop ==
    IF pl.state # "Running"
    THEN /\ pl_last' = PipelineCall("stop", "None", 0, "InvalidStateTransition")
         /\ UNCHANGED <<pl, pl_loading>>
    ELSE /\ pl' = [pl EXCEPT !.state = "Stopped"]
         /\ pl_last' = PipelineCall("stop", "None", 0, "Ok")
         /\ UNCHANGED pl_loading

MediaPipeline_seek(position) ==
    /\ pl_last' = PipelineCall("seek", "None", position,
                               IF seekable(pl.state) THEN "Ok" ELSE "InvalidStateTransition")
    /\ UNCHANGED <<pl, pl_loading>>

\* rx.try_recv().ok(): the oldest queued frame, None when the channel is empty
get_next_video_frame ==
    IF pl.video_rx = <<>>
    THEN /\ pl_last' = PipelineCall("get_next_video_frame", "None", 0, "None")
         /\ UNCHANGED <<pl, pl_loading>>
    ELSE /\ pl' = [pl EXCEPT !.video_rx = Tail(pl.video_rx)]
         /\ pl_last' = PipelineCall("get_next_video_frame", "None", 0, "Some")
         /\ UNCHANGED pl_loading

get_next_audio_buffer ==
    IF pl.audio_rx = <<>>
    THEN /\ pl_last' = PipelineCall("get_next_audio_buffer", "None", 0, "None")
         /\ UNCHANGED <<pl, pl_loading>>
    ELSE /\ pl' = [pl EXCEPT !.audio_rx = Tail(pl.audio_rx)]
         /\ pl_last' = PipelineCall("get_next_audio_buffer", "None", 0, "Some")
         /\ UNCHANGED pl_loading

pipeline_idle == <<engine_vars, state_vars, sync_vars, ring_vars, cache_vars, manager_vars, rtc_vars,
      thread_vars, other_vars>>

NextPipeline ==
    \/ \E source \in Sources : MediaPipeline_load_source(source) /\ UNCHANGED pipeline_idle
    \/ load_source_store /\ UNCHANGED pipeline_idle
    \/ start /\ UNCHANGED pipeline_idle
    \/ stop /\ UNCHANGED pipeline_idle
    \/ \E position \in Positions : MediaPipeline_seek(position) /\ UNCHANGED pipeline_idle
    \/ get_next_video_frame /\ UNCHANGED pipeline_idle
    \/ get_next_audio_buffer /\ UNCHANGED pipeline_idle

SpecPipeline == Init /\ [][NextPipeline]_vars

\* C12: on a pipeline built Idle, load_source goes ahead exactly when the
\* state is Idle or Stopped and ends with the state Ready and the given
\* source stored; start succeeds exactly when the state is Ready and makes
\* it Running; stop succeeds exactly when the state is Running and makes it
\* Stopped; seek succeeds exactly when the state is Running or Ready and
\* changes nothing; every other call fails with InvalidStateTransition and
\* leaves the state and the stored source as they were.
C12_PipelineOperations ==
    [][LET c == pl_last' IN
       /\ c.op = "load_source" =>
             /\ c.result = "Pending" => pl.state \in {"Idle", "Stopped"}
             /\ c.result = "InvalidStateTransition" =>
                   pl.state \notin {"Idle", "Stopped"} /\ pl' = pl
             /\ c.result = "Ok" => pl'.state = "Ready" /\ pl'.source = c.source
       /\ c.op = "start" =>
             /\ c.result = (IF pl.state = "Ready" THEN "Ok" ELSE "InvalidStateTransition")
             /\ pl' = (IF c.result = "Ok" THEN [pl EXCEPT !.state = "Running"] ELSE pl)
       /\ c.op = "stop" =>
             /\ c.result = (IF pl.state = "Running" THEN "Ok" ELSE "InvalidStateTransition")
             /\ pl' = (IF c.result = "Ok" THEN [pl EXCEPT !.state = "Stopped"] ELSE pl)
       /\ c.op = "seek" =>
             /\ c.result = (IF pl.state \in {"Running", "Ready"} THEN "Ok"
                            ELSE "InvalidStateTransition")
             /\ pl' = pl]_vars

C12_Witness ==
    /\ pl_last = PipelineCall("load_source", "Buffer", 0, "Ok")
    /\ pl.state = "Ready"
    /\ pl.source = "Buffer"

\* ----------------------------------------------- the A/V sync controller
\* timestamps in milliseconds: the multiples of the threshold up to MaxSpan
\* of them, and their neighbours one millisecond either side
SyncTimes ==
    {t \in {i * DEFAULT_SYNC_THRESHOLD + j : i \in 0..MaxSpan, j \in {-1, 0, 1}} : t >= 0}

SyncCall(op, video_timestamp, audio_timestamp, decision) ==
    [op |-> op, video_timestamp |-> video_timestamp,
     audio_timestamp |-> audio_timestamp, decision |-> decision]

update_clock_unguarded(c, timestamp) == [c EXCEPT !.clock = timestamp]

update_clock(c, timestamp) ==
    IF timestamp > c.clock THEN [c EXCEPT !.clock = timestamp] ELSE c

within_tolerance_strict(diff, threshold) == diff < threshold

within_tolerance(diff, threshold) == diff <= threshold

sync_frame(video_timestamp, audio_timestamp) ==
    IF video_timestamp >= audio_timestamp
    THEN LET diff == video_timestamp - audio_timestamp
         IN  IF within_tolerance(diff, sy.threshold)
             THEN /\ sy' = update_clock(sy, video_timestamp)
                  /\ sy_last' = SyncCall("sync_frame", video_timestamp, audio_timestamp, Display)
             ELSE /\ sy_last' = SyncCall("sync_frame", video_timestamp, audio_timestamp, Wait(diff))
                  /\ UNCHANGED sy
    ELSE LET behind_by == audio_timestamp - video_timestamp
         IN  /\ sy_last' = SyncCall("sync_frame", video_timestamp, audio_timestamp,
                                    IF behind_by > sy.threshold THEN Drop ELSE Display)
             /\ UNCHANGED sy

\* the decision slot of the call record carries the clock value returned
get_clock ==
    /\ sy_last' = SyncCall("get_clock", 0, 0, [kind |-> "Clock", duration |-> sy.clock])
    /\ UNCHANGED sy

sync_idle == <<engine_vars, state_vars, pipeline_vars, ring_vars, cache_vars, manager_vars, rtc_vars,
      thread_vars, other_vars>>

NextSync ==
    \/ \E video_timestamp \in SyncTimes, audio_timestamp \in SyncTimes :
          sync_frame(video_timestamp, audio_timestamp) /\ UNCHANGED sync_idle
    \/ get_clock /\ UNCHANGED sync_idle

SpecSync == Init /\ [][NextSync]_vars

Abs(x) == IF x < 0 THEN -x ELSE x
Max(x, y) == IF x >= y THEN x ELSE y

\* C13: with T the controller's threshold, sync_frame answers Display when
\* |t_v - t_a| <= T, Wait carrying exactly t_v - t_a when t_v - t_a > T, and
\* Drop when t_a - t_v > T; a difference of exactly T either way is Display.
C13_SyncDecision ==
    sy_last.op = "sync_frame" =>
        LET t_v == sy_last.video_timestamp
            t_a == sy_last.audio_timestamp
            T == sy.threshold
        IN  sy_last.decision =
               (IF Abs(t_v - t_a) <= T THEN Display
                ELSE IF t_v - t_a > T THEN Wait(t_v - t_a)
                ELSE Drop)

C13_Witness ==
    /\ sy_last.op = "sync_frame"
    /\ sy_last.video_timestamp - sy_last.audio_timestamp = sy.threshold
    /\ sy_last.video_timestamp > sy.threshold
    /\ sy_last.decision = Display

\* C14: the clock starts at zero and no step lowers it; a Display decision
\* for a frame with t_v >= t_a leaves the clock at max(clock, t_v); Wait and
\* Drop decisions leave the clock where it was.
C14_ClockMonotonic ==
    /\ sy.clock = 0
    /\ [][/\ sy'.clock >= sy.clock
          /\ sy_last'.op = "sync_frame" =>
                LET t_v == sy_last'.video_timestamp
                    t_a == sy_last'.audio_timestamp
                IN  /\ (sy_last'.decision = Display /\ t_v >= t_a) =>
                           sy'.clock = Max(sy.clock, t_v)
                    /\ sy_last'.decision.kind \in {"Wait", "Drop"} =>
                           sy'.clock = sy.clock]_vars

C14_Witness ==
    /\ sy_last.op = "sync_frame"
    /\ sy_last.decision = Display
    /\ sy_last.video_timestamp >= sy_last.audio_timestamp
    /\ sy_last.video_timestamp > 0
    /\ sy.clock > sy_last.video_timestamp

\* ------------------------------------------------------- the ring buffer
Bytes == {1, 2}

\* the slices a caller passes to write
Data == UNION {[1..n -> Bytes] : n \in 0..MaxLen}

RingCall(op, len, result, n) == [op |-> op, len |-> len, result |-> result, n |-> n]

min_first(a, b) == a

min(a, b) == IF a <= b THEN a ELSE b

advance_unwrapped(pos, capacity) == pos + 1

advance(pos, capacity) == (pos + 1) % capacity

store_dropped(buffer, pos, byte) == buffer

store(buffer, pos, byte) == [buffer EXCEPT ![pos] = byte]

\* the loop of write: the first n bytes of data go in at write_pos
RECURSIVE write_loop(_, _, _)
write_loop(b, data, n) ==
    IF n = 0 THEN b
    ELSE write_loop([b EXCEPT !.buffer = store(b.buffer, b.write_pos, Head(data)),
                              !.write_pos = advance(b.write_pos, b.capacity)],
                    Tail(data), n - 1)

\* the loop of read: n bytes come out at read_pos, appended to out
RECURSIVE read_loop(_, _, _)
read_loop(b, out, n) ==
    IF n = 0 THEN [rb |-> b, out |-> out]
    ELSE read_loop([b EXCEPT !.read_pos = advance(b.read_pos, b.capacity)],
                   Append(out, b.buffer[b.read_pos]), n - 1)

SubSeqTo(seq, n) == [i \in 1..n |-> seq[i]]

write(data) ==
    IF data = <<>>
    THEN /\ rb_last' = RingCall("write", 0, "Ok", 0)
         /\ UNCHANGED <<rb, rb_written, rb_read>>
    ELSE LET available_space == rb.capacity - rb.count
         IN  IF available_space = 0
             THEN /\ rb_last' = RingCall("write", Len(data), "BufferFull", 0)
                  /\ UNCHANGED <<rb, rb_written, rb_read>>
             ELSE LET to_write == min(Len(data), available_space)
                  IN  /\ Len(rb_written) + to_write <= MaxWritten
                      /\ rb' = [write_loop(rb, data, to_write) EXCEPT !.count = rb.count + to_write]
                      /\ rb_written' = rb_written \o SubSeqTo(data, to_write)
                      /\ rb_last' = RingCall("write", Len(data), "Ok", to_write)
                      /\ UNCHANGED rb_read

\* len is the length of the caller's buf
read(len) ==
    IF rb.count = 0
    THEN /\ rb_last' = RingCall("read", len, "BufferEmpty", 0)
         /\ UNCHANGED <<rb, rb_written, rb_read>>
    ELSE LET to_read == min(len, rb.count)
             done == read_loop(rb, <<>>, to_read)
         IN  /\ rb' = [done.rb EXCEPT !.count = rb.count - to_read]
             /\ rb_read' = rb_read \o done.out
             /\ rb_last' = RingCall("read", len, "Ok", to_read)
             /\ UNCHANGED rb_written

available ==
    /\ rb_last' = RingCall("available", 0, "Ok", rb.count)
    /\ UNCHANGED <<rb, rb_written, rb_read>>

capacity ==
    /\ rb_last' = RingCall("capacity", 0, "Ok", rb.capacity)
    /\ UNCHANGED <<rb, rb_written, rb_read>>

InitRing ==
    /\ engine_init /\ state_init /\ pipeline_init /\ sync_init /\ cache_init /\ manager_init /\ rtc_init
    /\ thread_init /\ other_init
    /\ \E c \in 0..MaxCapacity : rb = RingBuffer_new(c)
    /\ rb_written = <<>>
    /\ rb_read = <<>>
    /\ rb_last = NoRingCall

ring_idle == <<engine_vars, state_vars, pipeline_vars, sync_vars, cache_vars, manager_vars, rtc_vars,
      thread_vars, other_vars>>

NextRing ==
    \/ \E data \in Data : write(data) /\ UNCHANGED ring_idle
    \/ \E len \in 0..MaxLen : read(len) /\ UNCHANGED ring_idle
    \/ available /\ UNCHANGED ring_idle
    \/ capacity /\ UNCHANGED ring_idle

SpecRing == InitRing /\ [][NextRing]_vars

\* the bytes the buffer holds, oldest first
Held(b) == [i \in 1..b.count |-> b.buffer[(b.read_pos + i - 1) % b.capacity]]

\* C15 as stated: 0 <= count <= capacity, both positions lie in
\* [0, capacity), write_pos is read_pos + count modulo capacity, available()
\* returns count, and capacity() never changes.
C15_RingInvariant ==
    /\ [](/\ 0 <= rb.count /\ rb.count <= rb.capacity
          /\ rb.read_pos \in 0..(rb.capacity - 1)
          /\ rb.write_pos \in 0..(rb.capacity - 1)
          /\ \E k \in 0..1 : rb.read_pos + rb.count = rb.write_pos + k * rb.capacity
          /\ rb_last.op = "available" => rb_last.n = rb.count)
    /\ [][rb'.capacity = rb.capacity]_vars

\* C15 amended: 0 <= count <= capacity; in a buffer of capacity > 0 both
\* positions lie in [0, capacity) and write_pos = (read_pos + count) mod
\* capacity, in a buffer of capacity 0 both positions and count stay 0;
\* available() returns count; capacity() never changes and is the length
\* of the storage.
C15_RingInvariantNonEmpty ==
    /\ [](/\ 0 <= rb.count /\ rb.count <= rb.capacity
          /\ rb.capacity > 0 =>
                /\ rb.read_pos \in 0..(rb.capacity - 1)
                /\ rb.write_pos \in 0..(rb.capacity - 1)
                /\ rb.write_pos = (rb.read_pos + rb.count) % rb.capacity
          /\ rb.capacity = 0 => rb.read_pos = 0 /\ rb.write_pos = 0
          /\ rb_last.op = "available" => rb_last.n = rb.count
          /\ rb_last.op = "capacity" => rb_last.n = rb.capacity
          /\ DOMAIN rb.buffer = 0..(rb.capacity - 1))
    /\ [][rb'.capacity = rb.capacity]_vars

C15_Witness ==
    /\ rb.capacity = 2
    /\ rb.count = rb.capacity
    /\ rb.read_pos = rb.capacity - 1
    /\ rb.write_pos = rb.read_pos
    /\ rb_last.op = "available"

\* C16: the bytes read so far, followed by the bytes still held, are exactly
\* the bytes write has accepted so far, in order; so what has been read is a
\* prefix of what has been written, wraparound included.
C16_RingFifo == rb_written = rb_read \o Held(rb)

\* a read of two bytes that starts at the last slot and wraps to the first
C16_Witness ==
    /\ rb.capacity = 2
    /\ rb_last = RingCall("read", 2, "Ok", 2)
    /\ rb.read_pos = 1
    /\ Len(rb_read) = 3
    /\ rb_read[2] # rb_read[3]

\* C17: write returns min(len, capacity - count) and raises count by it,
\* but returns BufferFull and changes nothing exactly when count = capacity
\* and the input is non-empty; read returns min(len, count) and lowers count
\* by it, but returns BufferEmpty and changes nothing exactly when count = 0.
C17_RingReturnValues ==
    [][LET c == rb_last' IN
       /\ c.op = "write" =>
             IF rb.count = rb.capacity /\ c.len > 0
             THEN c.result = "BufferFull" /\ rb' = rb
             ELSE /\ c.result = "Ok"
                  /\ c.n = (IF c.len <= rb.capacity - rb.count THEN c.len
                            ELSE rb.capacity - rb.count)
                  /\ rb'.count = rb.count + c.n
       /\ c.op = "read" =>
             IF rb.count = 0
             THEN c.result = "BufferEmpty" /\ rb' = rb
             ELSE /\ c.result = "Ok"
                  /\ c.n = (IF c.len <= rb.count THEN c.len ELSE rb.count)
                  /\ rb'.count = rb.count - c.n]_vars

\* a write cut short by the space left
C17_Witness ==
    /\ rb_last = RingCall("write", 2, "Ok", 1)
    /\ rb.count = rb.capacity
    /\ rb.capacity = 2

\* ------------------------------------------------------- the frame cache
\* frame timestamps, in seconds
Timestamps == 0..MaxTimestamp

\* a frame is told apart by its timestamp and, among frames of one
\* timestamp, by its width
VideoFrame(timestamp, width) == [timestamp |-> timestamp, width |-> width]

Widths == {640, 1280}

CacheEntry(frame, access_count) == [frame |-> frame, access_count |-> access_count]

\* width: the width of the frame handed in or handed back (0: none)
CacheCall(op, timestamp, result, evicted, width) ==
    [op |-> op, timestamp |-> timestamp, result |-> result, evicted |-> evicted,
     width |-> width]

is_full_late(frames, max_frames) == Cardinality(DOMAIN frames) > max_frames

is_full(frames, max_frames) == Cardinality(DOMAIN frames) >= max_frames

next_access_same(counter) == counter

\* self.access_counter += 1
next_access(counter) == counter + 1

is_new_always(frames, timestamp) == TRUE

is_new(frames, timestamp) == timestamp \notin DOMAIN frames

mru_timestamp(frames) ==
    CHOOSE ts \in DOMAIN frames :
        \A other \in DOMAIN frames : frames[ts].access_count >= frames[other].access_count

\* frames.iter().min_by_key(access_count): access counts are all different,
\* each being a value of the counter taken after an increment
lru_timestamp(frames) ==
    CHOOSE ts \in DOMAIN frames :
        \A other \in DOMAIN frames : frames[ts].access_count <= frames[other].access_count

\* history of use: seq without the timestamps in gone
Without(seq, gone) == SelectSeq(seq, LAMBDA ts : ts \notin gone)

insert(frame) ==
    IF fc.max_frames = 0
    THEN /\ fc_last' = CacheCall("insert", frame.timestamp, "OutOfMemory", {}, frame.width)
         /\ UNCHANGED <<fc, fc_order>>
    ELSE LET timestamp == frame.timestamp
             evicted == IF /\ is_full(fc.frames, fc.max_frames)
                           /\ is_new(fc.frames, timestamp)
                           /\ DOMAIN fc.frames # {}
                        THEN {lru_timestamp(fc.frames)} ELSE {}
             kept == [ts \in DOMAIN fc.frames \ evicted |-> fc.frames[ts]]
             counter == next_access(fc.access_counter)
         IN  /\ fc.access_counter < MaxAccess
             /\ fc' = [fc EXCEPT !.access_counter = counter,
                                 !.frames = map_insert(kept, timestamp, CacheEntry(frame, counter))]
             /\ fc_order' = Append(Without(fc_order, evicted \cup {timestamp}), timestamp)
             /\ fc_last' = CacheCall("insert", timestamp, "Ok", evicted, frame.width)

get(timestamp) ==
    IF timestamp \in DOMAIN fc.frames
    THEN LET counter == next_access(fc.access_counter)
         IN  /\ fc.access_counter < MaxAccess
             /\ fc' = [fc EXCEPT !.access_counter = counter,
                                 !.frames[timestamp].access_count = counter]
             /\ fc_order' = Append(Without(fc_order, {timestamp}), timestamp)
             /\ fc_last' = CacheCall("get", timestamp, "Some", {}, fc.frames[timestamp].frame.width)
    ELSE /\ fc_last' = CacheCall("get", timestamp, "None", {}, 0)
         /\ UNCHANGED <<fc, fc_order>>

\* the evicted set of the call record carries the removed keys; the call
\* returns their number
evict_before(timestamp) ==
    LET to_remove == {ts \in DOMAIN fc.frames : ts < timestamp}
    IN  /\ fc' = [fc EXCEPT !.frames = [ts \in DOMAIN fc.frames \ to_remove |-> fc.frames[ts]]]
        /\ fc_order' = Without(fc_order, to_remove)
        /\ fc_last' = CacheCall("evict_before", timestamp, "Ok", to_remove, 0)

InitCache ==
    /\ engine_init /\ state_init /\ pipeline_init /\ sync_init /\ ring_init /\ manager_init /\ rtc_init
    /\ thread_init /\ other_init
    /\ \E max_frames \in 0..MaxFrames : fc = FrameCache_new(max_frames)
    /\ fc_order = <<>>
    /\ fc_last = NoCacheCall

cache_idle == <<engine_vars, state_vars, pipeline_vars, sync_vars, ring_vars, manager_vars, rtc_vars,
      thread_vars, other_vars>>

NextCache ==
    \/ \E timestamp \in Timestamps, width \in Widths :
          insert(VideoFrame(timestamp, width)) /\ UNCHANGED cache_idle
    \/ \E timestamp \in Timestamps : get(timestamp) /\ UNCHANGED cache_idle
    \/ \E timestamp \in Timestamps : evict_before(timestamp) /\ UNCHANGED cache_idle

SpecCache == InitCache /\ [][NextCache]_vars

\* C18: the cache never holds more than max_frames entries; with max_frames
\* 0 every insert fails with OutOfMemory and the cache stays empty.
C18_CacheBound ==
    /\ Cardinality(DOMAIN fc.frames) <= fc.max_frames
    /\ fc.max_frames = 0 =>
          /\ DOMAIN fc.frames = {}
          /\ fc_last.op = "insert" => fc_last.result = "OutOfMemory"

\* an insert into a full cache that made room
C18_Witness ==
    /\ fc.max_frames = 2
    /\ Cardinality(DOMAIN fc.frames) = fc.max_frames
    /\ fc_last.op = "insert"
    /\ fc_last.result = "Ok"
    /\ fc_last.evicted # {}

\* C19: an insert of a timestamp not yet present into a cache at capacity
\* evicts exactly one entry, the one whose last insert or successful get is
\* the oldest, and no other insert evicts anything.
C19_LruEviction ==
    [][fc_last'.op = "insert" /\ fc_last'.result = "Ok" =>
          LET keys == DOMAIN fc.frames
              gone == keys \ DOMAIN fc'.frames
          IN  /\ fc_last'.evicted = gone
              /\ IF Cardinality(keys) = fc.max_frames /\ fc_last'.timestamp \notin keys
                 THEN gone = {Head(fc_order)}
                 ELSE gone = {}
              /\ DOMAIN fc'.frames = (keys \ gone) \cup {fc_last'.timestamp}]_vars

\* the cache was filled with 0 and 1, 0 was used again, and the insert of 2
\* evicted 1
C19_Witness ==
    /\ fc.max_frames = 2
    /\ fc_last = CacheCall("insert", 2, "Ok", {1}, 640)
    /\ fc.access_counter = 4
    /\ DOMAIN fc.frames = {0, 2}
    /\ fc.frames[0].access_count = 3

\* ---------------------------------------------------- the buffer manager
USIZE_MAX == 2^UsizeBits - 1
ISIZE_MAX == 2^(UsizeBits - 1) - 1

\* std::mem::size_of::<f32>()
size_of_f32 == 4

\* usize arithmetic in a build without overflow checks
wrapping(x) == x % (USIZE_MAX + 1)

\* byte counts a caller asks for: small ones, and the largest usize values
Requests == 0..MaxRequest \cup {USIZE_MAX - 1, USIZE_MAX}

\* sample counts: small ones, and the first ones whose byte size passes USIZE_MAX
SampleCounts == 0..1 \cup {(USIZE_MAX + 1) \div size_of_f32, (USIZE_MAX + 1) \div size_of_f32 + 1}

ManagerCall(op, requested, result, before) ==
    [op |-> op, requested |-> requested, result |-> result, before |-> before]

\* vec![0; n] of elements of the given size: Vec refuses more than
\* isize::MAX bytes with a "capacity overflow" panic
vec_alloc(n, elem_size) == IF n * elem_size > ISIZE_MAX THEN "Panic" ELSE "Ok"

\* the caller receives the buffer when the allocation went through, and
\* holds at most MaxHeld buffers at a time
hand_out(result, charged) ==
    IF result = "Ok"
    THEN Len(bm_held) < MaxHeld /\ bm_held' = Append(bm_held, charged)
    ELSE UNCHANGED bm_held

\* A panic unwinds out of the call; the manager is left as the statements
\* before the panic made it.
allocate_video_buffer(size) ==
    LET sum == bm.current_memory + size
    IN  IF sum > USIZE_MAX /\ overflow_checks
        THEN /\ bm_last' = ManagerCall("allocate_video_buffer", size, "Panic", bm.current_memory)
             /\ UNCHANGED <<bm, overflow_checks, bm_held>>
        ELSE IF wrapping(sum) > bm.config.max_memory
        THEN /\ bm_last' = ManagerCall("allocate_video_buffer", size, "OutOfMemory", bm.current_memory)
             /\ UNCHANGED <<bm, overflow_checks, bm_held>>
        ELSE /\ bm' = [bm EXCEPT !.current_memory = wrapping(sum)]
             /\ bm_last' = ManagerCall("allocate_video_buffer", size, vec_alloc(size, 1),
                                       bm.current_memory)
             /\ hand_out(vec_alloc(size, 1), size)
             /\ UNCHANGED overflow_checks

allocate_audio_buffer(samples) ==
    LET bytes == samples * size_of_f32
        size == wrapping(bytes)
        sum == bm.current_memory + size
    IN  IF (bytes > USIZE_MAX \/ sum > USIZE_MAX) /\ overflow_checks
        THEN /\ bm_last' = ManagerCall("allocate_audio_buffer", bytes, "Panic", bm.current_memory)
             /\ UNCHANGED <<bm, overflow_checks, bm_held>>
        ELSE IF wrapping(sum) > bm.config.max_memory
        THEN /\ bm_last' = ManagerCall("allocate_audio_buffer", bytes, "OutOfMemory", bm.current_memory)
             /\ UNCHANGED <<bm, overflow_checks, bm_held>>
        ELSE /\ bm' = [bm EXCEPT !.current_memory = wrapping(sum)]
             /\ bm_last' = ManagerCall("allocate_audio_buffer", bytes,
                                       vec_alloc(samples, size_of_f32), bm.current_memory)
             /\ hand_out(vec_alloc(samples, size_of_f32), size)
             /\ UNCHANGED overflow_checks

\* the requested slot of the call record carries the value returned
get_memory_usage ==
    /\ bm_last' = ManagerCall("get_memory_usage", bm.current_memory, "Ok", bm.current_memory)
    /\ UNCHANGED <<bm, overflow_checks, bm_held>>

cleanup ==
    /\ bm_last' = ManagerCall("cleanup", 0, "Ok", bm.current_memory)
    /\ UNCHANGED <<bm, overflow_checks, bm_held>>

\* the caller drops the i-th buffer it holds: VideoFrameBuffer and
\* AudioSampleBuffer have no Drop implementation and no link to the manager
drop_buffer(i) ==
    /\ bm_held' = [k \in 1..(Len(bm_held) - 1) |-> IF k < i THEN bm_held[k] ELSE bm_held[k + 1]]
    /\ bm_last' = ManagerCall("drop", bm_held[i], "Ok", bm.current_memory)
    /\ UNCHANGED <<bm, overflow_checks>>

InitBufferManager ==
    /\ engine_init /\ state_init /\ pipeline_init /\ sync_init /\ ring_init /\ cache_init /\ rtc_init
    /\ thread_init /\ other_init
    /\ \E max_memory \in 0..MaxMemory : bm = BufferManager_new([max_memory |-> max_memory])
    /\ overflow_checks \in BOOLEAN
    /\ bm_held = <<>>
    /\ bm_last = NoManagerCall

manager_idle == <<engine_vars, state_vars, pipeline_vars, sync_vars, ring_vars, cache_vars, rtc_vars,
      thread_vars, other_vars>>

NextBufferManager ==
    \/ \E size \in Requests : allocate_video_buffer(size) /\ UNCHANGED manager_idle
    \/ \E samples \in SampleCounts : allocate_audio_buffer(samples) /\ UNCHANGED manager_idle
    \/ get_memory_usage /\ UNCHANGED manager_idle
    \/ cleanup /\ UNCHANGED manager_idle
    \/ \E i \in 1..Len(bm_held) : drop_buffer(i) /\ UNCHANGED manager_idle

SpecBufferManager == InitBufferManager /\ [][NextBufferManager]_vars

Allocations == {"allocate_video_buffer", "allocate_audio_buffer"}

\* C20: the manager's current byte count never passes max_memory; an
\* allocation is granted exactly when current + requested <= max_memory and
\* then adds the requested bytes; a denied one returns OutOfMemory and
\* leaves the count as it was.
C20_MemoryBudget ==
    /\ bm.current_memory <= bm.config.max_memory
    /\ bm_last.op \in Allocations =>
          IF bm_last.before + bm_last.requested <= bm.config.max_memory
          THEN bm_last.result = "Ok" /\ bm.current_memory = bm_last.before + bm_last.requested
          ELSE bm_last.result = "OutOfMemory" /\ bm.current_memory = bm_last.before

\* C21: dropping a buffer lowers the manager's current byte count by the
\* size charged for it, so that with no buffer left the count is zero.
C21_DropReleases ==
    /\ bm_last.op = "drop" => bm.current_memory = bm_last.before - bm_last.requested
    /\ (bm_last.op = "drop" /\ bm_held = <<>>) => bm.current_memory = 0

\* ----------------------------------------------------- the jitter buffer
\* the number of u16 values, and the half range sequence_before compares with
U16_RANGE == 65536
HALF_RANGE == 32768

wrapping_add_u16_unwrapped(a, b) == a + b

wrapping_add_u16(a, b) == (a + b) % U16_RANGE

wrapping_sub_u16(a, b) == (a - b + U16_RANGE) % U16_RANGE

\* sequence numbers either side of the wrap, and one half a range away
JitterSeqs == {U16_RANGE - 1, 0, 1, HALF_RANGE}

PacketPayloads == {<<1>>, <<2>>}

JitterPackets == {RTPPacket(payload, seq, U32(0, 0), U32(0, 1)) : payload \in PacketPayloads, seq \in JitterSeqs}

JitterCall(op, sequence_number, payload, result) ==
    [op |-> op, sequence_number |-> sequence_number, payload |-> payload, result |-> result]

sequence_before_plain(a, b) == a < b

sequence_before(a, b) ==
    LET diff == wrapping_sub_u16(b, a)
    IN  diff > 0 /\ diff < HALF_RANGE

jitter_full_late(n, cap) == n > cap

jitter_full(n, cap) == n >= cap

JitterBuffer_insert(packet) ==
    LET seq == packet.sequence_number
    IN  IF jitter_full(Cardinality(DOMAIN jb.packets), jb.capacity) /\ seq \notin DOMAIN jb.packets
        THEN /\ jb_last' = JitterCall("insert", seq, packet.payload, "OutOfMemory")
             /\ UNCHANGED jb
        ELSE /\ jb' = [jb EXCEPT
                         !.packets = IF seq \in DOMAIN jb.packets THEN jb.packets
                                     ELSE map_insert(jb.packets, seq, packet),
                         !.next_expected_seq =
                             IF ~jb.next_expected_seq.is_some THEN Some(seq)
                             ELSE IF sequence_before(seq, jb.next_expected_seq.value)
                                  THEN Some(seq)
                                  ELSE jb.next_expected_seq]
             /\ jb_last' = JitterCall("insert", seq, packet.payload, "Ok")

JitterBuffer_get_next ==
    IF jb.next_expected_seq.is_some /\ jb.next_expected_seq.value \in DOMAIN jb.packets
    THEN LET expected_seq == jb.next_expected_seq.value
             packet == jb.packets[expected_seq]
         IN  /\ jb' = [jb EXCEPT !.packets = map_remove(jb.packets, expected_seq),
                                 !.next_expected_seq = Some(wrapping_add_u16(expected_seq, 1))]
             /\ jb_last' = JitterCall("get_next", packet.sequence_number, packet.payload, "Some")
    ELSE /\ jb_last' = JitterCall("get_next", 0, <<>>, "None")
         /\ UNCHANGED jb

\* the payload slot of the call record carries no packet; the sequence
\* number slot carries the length returned
JitterBuffer_len ==
    /\ jb_last' = JitterCall("len", Cardinality(DOMAIN jb.packets), <<>>, "Ok")
    /\ UNCHANGED jb

InitJitter ==
    /\ engine_init /\ state_init
    /\ pipeline_init /\ sync_init /\ ring_init /\ cache_init /\ manager_init
    /\ \E cap \in 0..MaxJitter : jb = JitterBuffer_new(cap)
    /\ jb_script = <<>>
    /\ jb_out = <<>>
    /\ jb_last = NoJitterCall
    /\ packetizer_init /\ thread_init /\ other_init

jitter_idle ==
    <<engine_vars, state_vars, pipeline_vars, sync_vars, ring_vars, cache_vars, manager_vars,
      packetizer_vars, thread_vars, other_vars, jb_script, jb_out>>

NextJitter ==
    \/ \E packet \in JitterPackets : JitterBuffer_insert(packet) /\ UNCHANGED jitter_idle
    \/ JitterBuffer_get_next /\ UNCHANGED jitter_idle
    \/ JitterBuffer_len /\ UNCHANGED jitter_idle

SpecJitter == InitJitter /\ [][NextJitter]_vars

\* C23: the buffer never holds more than capacity packets; an insert of a
\* sequence number not stored while capacity packets are held is rejected
\* with OutOfMemory and leaves the stored packets and next_expected_seq as
\* they were.
C23_JitterCapacity ==
    /\ [](Cardinality(DOMAIN jb.packets) <= jb.capacity)
    /\ [][(/\ jb_last'.op = "insert"
           /\ jb_last'.sequence_number \notin DOMAIN jb.packets
           /\ Cardinality(DOMAIN jb.packets) = jb.capacity) =>
              jb_last'.result = "OutOfMemory" /\ jb' = jb]_vars

C23_Witness ==
    /\ jb_last.op = "insert"
    /\ jb_last.result = "OutOfMemory"
    /\ jb.capacity = 2
    /\ Cardinality(DOMAIN jb.packets) = 2

\* C24: an insert of a sequence number already stored succeeds and changes
\* nothing: the packet stored first stays, and the number of stored packets
\* and next_expected_seq are as before.
C24_DuplicateIgnored ==
    [][(jb_last'.op = "insert" /\ jb_last'.sequence_number \in DOMAIN jb.packets) =>
          jb_last'.result = "Ok" /\ jb' = jb]_vars

\* C25: get_next hands out the packet stored at next_expected_seq, removes
\* it and moves next_expected_seq on by one modulo 2^16; when no packet is
\* stored there (nothing expected yet, buffer empty, or a gap) it returns
\* nothing and changes nothing; inserting the packet that is missing at
\* next_expected_seq stores it and leaves next_expected_seq on it, so that
\* the next get_next returns it.
C25_GetNext ==
    [][/\ jb_last'.op = "get_next" =>
             IF jb.next_expected_seq.is_some /\ jb.next_expected_seq.value \in DOMAIN jb.packets
             THEN LET e == jb.next_expected_seq.value
                  IN  /\ jb_last' = JitterCall("get_next", e, jb.packets[e].payload, "Some")
                      /\ jb'.packets = map_remove(jb.packets, e)
                      /\ jb'.next_expected_seq = Some((e + 1) % 65536)
             ELSE jb_last'.result = "None" /\ jb' = jb
       /\ (/\ jb_last'.op = "insert" /\ jb_last'.result = "Ok"
           /\ jb.next_expected_seq = Some(jb_last'.sequence_number)
           /\ jb_last'.sequence_number \notin DOMAIN jb.packets) =>
              /\ jb'.next_expected_seq = jb.next_expected_seq
              /\ jb_last'.sequence_number \in DOMAIN jb'.packets]_vars

\* a gap: 65535 went out, 0 is missing, 1 is stored and held back
C25_Witness ==
    /\ jb_last.op = "get_next"
    /\ jb_last.result = "None"
    /\ jb.next_expected_seq = Some(0)
    /\ DOMAIN jb.packets = {1}

\* ------------------------------------- the jitter buffer, filled then drained
\* first sequence numbers of the windows: before the wrap, at it, and below
\* the half range
WindowBases == {U16_RANGE - 2, U16_RANGE - 1, 0, HALF_RANGE - 1}

\* a window of n consecutive sequence numbers, each packet carrying a
\* payload that tells it from the others
Window(base, n) ==
    [i \in 1..n |-> LET seq == wrapping_add_u16(base, i - 1)
                    IN  RTPPacket(<<seq % 256>>, seq, U32(0, 0), U32(0, 1))]

Orders(n) == {order \in [1..n -> 1..n] : \A i, j \in 1..n : order[i] = order[j] => i = j}

InitJitterOrder ==
    /\ engine_init /\ state_init
    /\ pipeline_init /\ sync_init /\ ring_init /\ cache_init /\ manager_init
    /\ \E n \in 0..MaxJitter : \E cap \in n..MaxJitter :
       \E base \in WindowBases : \E order \in Orders(n) :
          /\ jb = JitterBuffer_new(cap)
          /\ jb_script = [i \in 1..n |-> Window(base, n)[order[i]]]
    /\ jb_out = <<>>
    /\ jb_last = NoJitterCall
    /\ packetizer_init /\ thread_init /\ other_init

order_idle ==
    <<engine_vars, state_vars, pipeline_vars, sync_vars, ring_vars, cache_vars, manager_vars,
      packetizer_vars, thread_vars, other_vars>>

feed ==
    /\ jb_script # <<>>
    /\ JitterBuffer_insert(Head(jb_script))
    /\ jb_script' = Tail(jb_script)
    /\ UNCHANGED jb_out

drain ==
    /\ jb_script = <<>>
    /\ JitterBuffer_get_next
    /\ UNCHANGED jb_script
    /\ jb_out' = IF jb.next_expected_seq.is_some /\ jb.next_expected_seq.value \in DOMAIN jb.packets
                 THEN Append(jb_out, jb.packets[jb.next_expected_seq.value])
                 ELSE jb_out

NextJitterOrder ==
    \/ feed /\ UNCHANGED order_idle
    \/ drain /\ UNCHANGED order_idle

SpecJitterOrder == InitJitterOrder /\ [][NextJitterOrder]_vars

\* C22: packets with distinct sequence numbers forming a gap-free window,
\* inserted into a fresh buffer of sufficient capacity in any order, come
\* out of repeated get_next calls in modular sequence order, also across the
\* wrap from 65535 to 0: the first packet out is the one whose predecessor
\* is not in the window, each next one has the following sequence number
\* modulo 2^16 and is the packet that was inserted, and get_next returns
\* nothing only when every packet has come out.
C22_OrderedRetrieval ==
    jb_script = <<>> =>
        LET window == {jb_out[i].sequence_number : i \in 1..Len(jb_out)} \cup DOMAIN jb.packets
        IN  /\ jb_out # <<>> => (jb_out[1].sequence_number + 65535) % 65536 \notin window
            /\ \A i \in 2..Len(jb_out) :
                  jb_out[i].sequence_number = (jb_out[i - 1].sequence_number + 1) % 65536
            /\ \A i \in 1..Len(jb_out) :
                  jb_out[i] = RTPPacket(<<jb_out[i].sequence_number % 256>>,
                                        jb_out[i].sequence_number, U32(0, 0), U32(0, 1))
            /\ (jb_last.op = "get_next" /\ jb_last.result = "None") => DOMAIN jb.packets = {}

C22_Witness ==
    /\ Len(jb_out) = 3
    /\ jb_out[1].sequence_number = 65535
    /\ jb_out[2].sequence_number = 0
    /\ jb_out[3].sequence_number = 1
    /\ jb_last.op = "get_next"
    /\ jb_last.result = "None"

\* ------------------------------------------------------ the RTP packetizer
RTP_MTU == 1200

\* what thread_rng().gen::<u32>() can return: every u32, zero among them
Ssrcs == {U32(0, 0), U32(1, 2), U32(U16_RANGE - 1, U16_RANGE - 1)}

RtpTimestamps == {U32(0, 0), U32(HALF_RANGE, 513)}

\* lengths around one and two full packets
PayloadLens == {0, 1, RTP_MTU, RTP_MTU + 1, 2 * RTP_MTU + 1}

PayloadOf(len) == [i \in 1..len |-> (7 * i) % 256]

StartSeqs == {U16_RANGE - 2, U16_RANGE - 1}

RtpCall(op, payload, timestamp, packets, packet, bytes) ==
    [op |-> op, payload |-> payload, timestamp |-> timestamp, packets |-> packets,
     packet |-> packet, bytes |-> bytes]

chunk_size_whole(remaining) == remaining

chunk_size_of(remaining) == min(RTP_MTU, remaining)

\* the while loop of packetize from offset on: the packets pushed and the
\* sequence number left in the cell
RECURSIVE packetize_loop(_, _, _, _, _)
packetize_loop(payload, offset, seq, timestamp, ssrc) ==
    IF offset < Len(payload)
    THEN LET chunk_size == chunk_size_of(Len(payload) - offset)
             chunk == SubSeq(payload, offset + 1, offset + chunk_size)
             packet == RTPPacket(chunk, seq, timestamp, ssrc)
             rest == packetize_loop(payload, offset + chunk_size,
                                    wrapping_add_u16(seq, 1), timestamp, ssrc)
         IN  [packets |-> <<packet>> \o rest.packets, sequence_number |-> rest.sequence_number]
    ELSE [packets |-> <<>>, sequence_number |-> seq]

set_sequence_number(seq) ==
    /\ pk' = [pk EXCEPT !.sequence_number = seq]
    /\ pk_last' = RtpCall("set_sequence_number", <<>>, U32(0, 0), <<>>, NoRtpCall.packet, <<>>)
    /\ UNCHANGED pk_calls

packetize(payload, timestamp) ==
    /\ pk_calls < MaxPacketize
    /\ pk_calls' = pk_calls + 1
    /\ IF payload = <<>>
       THEN /\ pk_last' = RtpCall("packetize", payload, timestamp, <<>>, NoRtpCall.packet, <<>>)
            /\ UNCHANGED pk
       ELSE LET done == packetize_loop(payload, 0, pk.sequence_number, timestamp, pk.ssrc)
            IN  /\ pk' = [pk EXCEPT !.sequence_number = done.sequence_number]
                /\ pk_last' = RtpCall("packetize", payload, timestamp, done.packets,
                                      NoRtpCall.packet, <<>>)

to_le_bytes_u16(v) == <<v % 256, v \div 256>>

to_be_bytes_u16(v) == <<v \div 256, v % 256>>

to_be_bytes_u32(v) == to_be_bytes_u16(v.hi) \o to_be_bytes_u16(v.lo)

RTPPacket_to_bytes(packet) ==
    <<128, 0>> \o to_be_bytes_u16(packet.sequence_number) \o to_be_bytes_u32(packet.timestamp)
        \o to_be_bytes_u32(packet.ssrc) \o packet.payload

SerializedPayloads == {<<>>, <<255>>, <<1, 0, 254>>}

SerializedSeqs == {0, 258, U16_RANGE - 1}

to_bytes(packet) ==
    /\ pk_last' = RtpCall("to_bytes", <<>>, U32(0, 0), <<>>, packet, RTPPacket_to_bytes(packet))
    /\ UNCHANGED <<pk, pk_calls>>

InitRtp ==
    /\ engine_init /\ state_init
    /\ pipeline_init /\ sync_init /\ ring_init /\ cache_init /\ manager_init /\ jitter_init
    /\ thread_init /\ other_init
    /\ \E ssrc \in Ssrcs : pk = RTPPacketizer_new(ssrc)
    /\ pk_calls = 0
    /\ pk_last = NoRtpCall

rtp_idle ==
    <<engine_vars, state_vars, pipeline_vars, sync_vars, ring_vars, cache_vars, manager_vars,
      jitter_vars, thread_vars, other_vars>>

NextRtp ==
    \/ \E seq \in StartSeqs : set_sequence_number(seq) /\ UNCHANGED rtp_idle
    \/ \E len \in PayloadLens : \E timestamp \in RtpTimestamps :
          packetize(PayloadOf(len), timestamp) /\ UNCHANGED rtp_idle
    \/ \E payload \in SerializedPayloads : \E seq \in SerializedSeqs :
       \E timestamp \in RtpTimestamps : \E ssrc \in Ssrcs :
          to_bytes(RTPPacket(payload, seq, timestamp, ssrc)) /\ UNCHANGED rtp_idle

SpecRtp == InitRtp /\ [][NextRtp]_vars

RECURSIVE Concat(_)
Concat(packets) ==
    IF packets = <<>> THEN <<>> ELSE Head(packets).payload \o Concat(Tail(packets))

\* C26: packetize of a payload of length L returns ceil(L / 1200) packets
\* (none for the empty payload), each with at most 1200 payload bytes, the
\* given timestamp and the packetizer's SSRC; the payloads concatenated in
\* order are the input; the sequence numbers are consecutive modulo 2^16
\* from the packetizer's sequence number before the call, and the packetizer
\* is left on the number after the last packet, so that the numbering
\* continues in the next call, wrapping from 65535 to 0.
C26_Packetize ==
    [][pk_last'.op = "packetize" =>
          LET L == Len(pk_last'.payload)
              ps == pk_last'.packets
          IN  /\ Len(ps) = (L + 1199) \div 1200
              /\ \A i \in 1..Len(ps) :
                    /\ Len(ps[i].payload) <= 1200
                    /\ ps[i].timestamp = pk_last'.timestamp
                    /\ ps[i].ssrc = pk.ssrc
                    /\ ps[i].sequence_number = (pk.sequence_number + i - 1) % 65536
              /\ Concat(ps) = pk_last'.payload
              /\ pk'.sequence_number = (pk.sequence_number + Len(ps)) % 65536
              /\ pk'.ssrc = pk.ssrc]_vars

C26_Witness ==
    /\ pk_last.op = "packetize"
    /\ Len(pk_last.payload) = 2401
    /\ Len(pk_last.packets) = 3
    /\ pk_last.packets[1].sequence_number = 65535
    /\ pk_last.packets[2].sequence_number = 0
    /\ pk_calls = 2

from_be_bytes_u16(bytes, at) == bytes[at] * 256 + bytes[at + 1]

from_be_bytes_u32(bytes, at) == U32(from_be_bytes_u16(bytes, at), from_be_bytes_u16(bytes, at + 2))

\* C27: to_bytes yields 12 + len(payload) bytes, each in 0..255: 0x80, 0x00,
\* the sequence number in bytes 2-3, the timestamp in bytes 4-7 and the SSRC
\* in bytes 8-11, all big-endian, then the payload unchanged; reading those
\* fields back big-endian gives the packet's sequence number, timestamp and
\* SSRC.
C27_ToBytes ==
    pk_last.op = "to_bytes" =>
        LET bytes == pk_last.bytes
            packet == pk_last.packet
        IN  /\ Len(bytes) = 12 + Len(packet.payload)
            /\ \A i \in 1..Len(bytes) : bytes[i] \in 0..255
            /\ bytes[1] = 128
            /\ bytes[2] = 0
            /\ from_be_bytes_u16(bytes, 3) = packet.sequence_number
            /\ from_be_bytes_u32(bytes, 5) = packet.timestamp
            /\ from_be_bytes_u32(bytes, 9) = packet.ssrc
            /\ SubSeq(bytes, 13, Len(bytes)) = packet.payload

C27_Witness ==
    /\ pk_last.op = "to_bytes"
    /\ pk_last.packet.sequence_number = 258
    /\ pk_last.packet.timestamp = U32(32768, 513)
    /\ pk_last.packet.ssrc = U32(65535, 65535)
    /\ pk_last.bytes = <<128, 0, 1, 2, 128, 0, 2, 1, 255, 255, 255, 255, 1, 0, 254>>

\* C28: the SSRC of a packetizer is chosen once at construction, is not
\* zero whatever the random choice was, and every packet the packetizer
\* produces carries it.
C28_Ssrc ==
    /\ [](pk.ssrc # U32(0, 0))
    /\ [][/\ pk'.ssrc = pk.ssrc
          /\ pk_last'.op = "packetize" =>
                \A i \in 1..Len(pk_last'.packets) : pk_last'.packets[i].ssrc = pk.ssrc]_vars

\* ------------------------------ SessionManager::transition_state, threaded
\* the states the threads ask for
TransitionTargets == {Playing(0, 1), Paused(0), Seeking(0), Ended}

ThreadCall(op, thread, from, to, result) ==
    [op |-> op, thread |-> thread, from |-> from, to |-> to, result |-> result]

\* sessions.read(), session.state.read().clone() and the can_transition_to
\* test: the state lock is released at the end of the read statement
transition_state_read(t, new_state) ==
    /\ cs_threads[t].pc = "idle"
    /\ IF ~can_transition_to(cs_state, new_state)
       THEN /\ cs_last' = ThreadCall("transition_state", t, cs_state, new_state,
                                     "InvalidStateTransition")
            /\ UNCHANGED <<cs_state, cs_threads>>
       ELSE /\ cs_threads' = [cs_threads EXCEPT ![t] = [pc |-> "write", new_state |-> new_state,
                                                        id |-> 0]]
            /\ cs_last' = ThreadCall("read", t, cs_state, new_state, "Pending")
            /\ UNCHANGED cs_state

\* *session.state.write() = new_state; Ok(())
transition_state_write(t) ==
    /\ cs_threads[t].pc = "write"
    /\ cs_state' = cs_threads[t].new_state
    /\ cs_threads' = [cs_threads EXCEPT ![t] = Resting]
    /\ cs_last' = ThreadCall("transition_state", t, cs_state, cs_threads[t].new_state, "Ok")

session_thread_idle ==
    <<engine_vars, state_vars, pipeline_vars, sync_vars, ring_vars, cache_vars, manager_vars,
      rtc_vars, engine_thread_vars, other_vars>>

NextSessionThreads ==
    \/ \E t \in Threads : \E new_state \in TransitionTargets :
          transition_state_read(t, new_state) /\ UNCHANGED session_thread_idle
    \/ \E t \in Threads : transition_state_write(t) /\ UNCHANGED session_thread_idle

SpecSessionThreads == Init /\ [][NextSessionThreads]_vars

\* C29: in every interleaving of transition_state calls of several threads
\* on one session, a call that returns success moves the session along a
\* legal edge from the state it holds at the moment of the write, so the
\* session never takes an illegal step.
C29_TransitionsSerialized ==
    [][(cs_last'.op = "transition_state" /\ cs_last'.result = "Ok") =>
          can_transition_to(cs_state, cs_state')]_vars

\* ------------------------------- create_session / destroy_session, threaded
\* the block under sessions.read(): the limit test
create_session_check(t) ==
    /\ en_threads[t].pc = "idle"
    /\ IF session_limit_reached(Cardinality(DOMAIN sessions))
       THEN /\ last' = Call("create_session", 0, 0, "ResourceExhausted")
            /\ UNCHANGED en_threads
       ELSE /\ last' = Call("create_session", 0, 0, "Pending")
            /\ en_threads' = [en_threads EXCEPT ![t].pc = "create"]
    /\ UNCHANGED <<sessions, mgr_sessions, allocated, events>>

\* session_manager.create(config) and session_manager.get(session_id)
create_session_register(t) ==
    /\ en_threads[t].pc = "create"
    /\ Ids \ allocated # {}
    /\ LET id == SessionId_new(allocated)
       IN  /\ allocated' = allocated \cup {id}
           /\ mgr_sessions' = map_insert(mgr_sessions, id, MediaSession_new(id))
           /\ en_threads' = [en_threads EXCEPT ![t] = [pc |-> "insert", new_state |-> Idle,
                                                        id |-> id]]
           /\ last' = Call("create_session", id, 0, "Pending")
    /\ UNCHANGED <<sessions, events>>

\* self.sessions.write().insert(session_id, context); Ok(session_id)
create_session_insert(t) ==
    /\ en_threads[t].pc = "insert"
    /\ LET id == en_threads[t].id
       IN  /\ sessions' = map_insert(sessions, id, [session |-> id, pipeline |-> None])
           /\ last' = Call("create_session", id, 0, "Ok")
    /\ en_threads' = [en_threads EXCEPT ![t] = Resting]
    /\ UNCHANGED <<mgr_sessions, allocated, events>>

\* self.sessions.write().remove(&session)
destroy_session_remove(t, id) ==
    /\ en_threads[t].pc = "idle"
    /\ IF id \notin DOMAIN sessions
       THEN /\ last' = Call("destroy_session", id, 0, "SessionNotFound")
            /\ UNCHANGED <<sessions, en_threads>>
       ELSE /\ sessions' = map_remove(sessions, id)
            /\ en_threads' = [en_threads EXCEPT ![t] = [pc |-> "destroy", new_state |-> Idle,
                                                         id |-> id]]
            /\ last' = Call("destroy_session", id, 0, "Pending")
    /\ UNCHANGED <<mgr_sessions, allocated, events>>

\* self.session_manager.destroy(session)?; Ok(())
destroy_session_unregister(t) ==
    /\ en_threads[t].pc = "destroy"
    /\ mgr_sessions' = map_remove(mgr_sessions, en_threads[t].id)
    /\ last' = Call("destroy_session", en_threads[t].id, 0, "Ok")
    /\ en_threads' = [en_threads EXCEPT ![t] = Resting]
    /\ UNCHANGED <<sessions, allocated, events>>

engine_thread_idle ==
    <<state_vars, pipeline_vars, sync_vars, ring_vars, cache_vars, manager_vars, rtc_vars,
      session_thread_vars, other_vars>>

NextEngineThreads ==
    \/ \E t \in Threads : create_session_check(t) /\ UNCHANGED engine_thread_idle
    \/ \E t \in Threads : create_session_register(t) /\ UNCHANGED engine_thread_idle
    \/ \E t \in Threads : create_session_insert(t) /\ UNCHANGED engine_thread_idle
    \/ \E t \in Threads : \E id \in Ids : destroy_session_remove(t, id) /\ UNCHANGED engine_thread_idle
    \/ \E t \in Threads : destroy_session_unregister(t) /\ UNCHANGED engine_thread_idle

SpecEngineThreads == Init /\ [][NextEngineThreads]_vars

\* C30: in every interleaving of create_session and destroy_session calls of
\* several threads the engine never holds more than max_sessions live
\* sessions.
C30_ConcurrentSessionLimit == Cardinality(DOMAIN sessions) <= max_sessions

\* -------------------------------------------- play / pause / seek, threaded
\* context.session.set_state(state): the state lock is held for the store
\* only; the caller goes on to emit_event, or to the second store of seek
playback_set_state(t, state, then, announce) ==
    /\ Len(pb_applied) < MaxApplied
    /\ pb_state' = state
    /\ pb_applied' = Append(pb_applied, state)
    /\ pb_threads' = [pb_threads EXCEPT ![t] = [pc |-> then, new_state |-> announce, id |-> 0]]
    /\ UNCHANGED pb_events

play_set_state(t) ==
    /\ pb_threads[t].pc = "idle"
    /\ playback_set_state(t, Playing(0, 1), "emit", Playing(0, 1))

pause_set_state(t) ==
    /\ pb_threads[t].pc = "idle"
    /\ playback_set_state(t, Paused(0), "emit", Paused(0))

seek_set_seeking(t, position) ==
    /\ pb_threads[t].pc = "idle"
    /\ playback_set_state(t, Seeking(position), "seek", Playing(position, 1))

seek_set_playing(t) ==
    /\ pb_threads[t].pc = "seek"
    /\ playback_set_state(t, pb_threads[t].new_state, "emit", pb_threads[t].new_state)

\* self.emit_event(PlaybackStateChanged { .. }); Ok(())
playback_emit_event(t) ==
    /\ pb_threads[t].pc = "emit"
    /\ pb_events' = emit_event(pb_events, PlaybackStateChanged(1, pb_threads[t].new_state))
    /\ pb_threads' = [pb_threads EXCEPT ![t] = Resting]
    /\ UNCHANGED <<pb_state, pb_applied>>

playback_thread_idle ==
    <<engine_vars, state_vars, pipeline_vars, sync_vars, ring_vars, cache_vars, manager_vars,
      rtc_vars, thread_vars, config_vars, stamp_vars>>

NextPlaybackThreads ==
    \/ \E t \in Threads : play_set_state(t) /\ UNCHANGED playback_thread_idle
    \/ \E t \in Threads : pause_set_state(t) /\ UNCHANGED playback_thread_idle
    \/ \E t \in Threads : \E position \in Positions :
          seek_set_seeking(t, position) /\ UNCHANGED playback_thread_idle
    \/ \E t \in Threads : seek_set_playing(t) /\ UNCHANGED playback_thread_idle
    \/ \E t \in Threads : playback_emit_event(t) /\ UNCHANGED playback_thread_idle

SpecPlaybackThreads == Init /\ [][NextPlaybackThreads]_vars

\* the states that are announced: every stored state but the Seeking one
Announced(applied) == SelectSeq(applied, LAMBDA state : state.kind # "Seeking")

\* C31: in every interleaving of play, pause and seek calls of several
\* threads on one session, once all calls have returned the events on the
\* stream carry the announced states in the order in which they were
\* stored, and the last event carries the session's current state.
C31_CausalEventOrder ==
    (\A t \in Threads : pb_threads[t].pc = "idle") =>
        /\ [i \in 1..Len(pb_events) |-> pb_events[i].state] = Announced(pb_applied)
        /\ pb_events # <<>> => pb_events[Len(pb_events)].state = pb_state

\* C32: on the path create_session, load_source, play the session and its
\* pipeline move together: right after a successful load_source the
\* session's pipeline is Ready and holds the source, right after a
\* successful play it is Running, and no session is Playing while it has no
\* pipeline or an Idle one.
C32_Lockstep ==
    \A id \in DOMAIN sessions :
        LET pipeline == sessions[id].pipeline
        IN  /\ (last.op = "load_source" /\ last.result = "Ok" /\ last.id = id) =>
                  pipeline.is_some /\ pipeline.state = "Ready" /\ pipeline.source = last.arg
            /\ (last.op = "play" /\ last.result = "Ok" /\ last.id = id) =>
                  pipeline.is_some /\ pipeline.state = "Running"
            /\ mgr_sessions[sessions[id].session].state.kind = "Playing" =>
                  pipeline.is_some /\ pipeline.state # "Idle"

\* ------------------------------------------ the engine with several sessions
\* the two sessions of the claim, A and B
SessionPair == {1, 2}

\* an engine whose max_sessions admits both, after two create_session calls
\* (test_multiple_sessions)
InitSessions ==
    /\ sessions = [id \in SessionPair |-> [session |-> id, pipeline |-> None]]
    /\ mgr_sessions = [id \in SessionPair |-> MediaSession_new(id)]
    /\ allocated = SessionPair
    /\ events = <<>>
    /\ last = Call("create_session", 2, 0, "Ok")
    /\ state_init /\ media_init

NextSessions ==
    \/ \E id \in SessionPair, source \in Sources : load_source(id, source) /\ UNCHANGED idle_vars
    \/ \E id \in SessionPair : play(id) /\ UNCHANGED idle_vars
    \/ \E id \in SessionPair : pause(id) /\ UNCHANGED idle_vars
    \/ \E id \in SessionPair, position \in Positions : seek(id, position) /\ UNCHANGED idle_vars
    \/ \E id \in SessionPair, volume \in Volumes : set_volume(id, volume) /\ UNCHANGED idle_vars
    \/ \E id \in SessionPair : destroy_session(id) /\ UNCHANGED idle_vars
    \/ event_recv /\ UNCHANGED idle_vars

SpecSessions == InitSessions /\ [][NextSessions]_vars

\* C33: a load_source, play, pause, seek, set_volume or destroy_session call
\* on one session, successful or not, leaves every other session as it
\* was: live or not, with the same state and the same pipeline.
C33_SessionsIndependent ==
    [][last'.op \in {"load_source", "play", "pause", "seek", "set_volume", "destroy_session"} =>
          \A b \in SessionPair \ {last'.id} :
              /\ b \in DOMAIN sessions' <=> b \in DOMAIN sessions
              /\ b \in DOMAIN mgr_sessions' <=> b \in DOMAIN mgr_sessions
              /\ b \in DOMAIN sessions => sessions'[b] = sessions[b]
              /\ b \in DOMAIN mgr_sessions => mgr_sessions'[b] = mgr_sessions[b]]_vars

\* session 1 was destroyed while session 2 is Playing with a pipeline
C33_Witness ==
    /\ last.op = "destroy_session"
    /\ last.result = "Ok"
    /\ last.id = 1
    /\ 2 \in DOMAIN sessions
    /\ sessions[2].pipeline.is_some
    /\ mgr_sessions[2].state.kind = "Playing"

\* ------------------------------------------- a session and its updated_at
StampTargets == {Loading("Url", 0), Ready(0), Playing(0, 1), Paused(0), Ended}

StampCall(op, new_state, result, at) ==
    [op |-> op, new_state |-> new_state, result |-> result, at |-> at]

\* time passes on the system clock
tick ==
    /\ ms_now < MaxNow
    /\ ms_now' = ms_now + 1
    /\ UNCHANGED <<ms, ms_last>>

MediaSession_set_state(new_state) ==
    /\ ms' = [ms EXCEPT !.state = new_state, !.updated_at = ms_now]
    /\ ms_last' = StampCall("set_state", new_state, "Ok", ms_now)
    /\ UNCHANGED ms_now

\* SessionManager::transition_state on the session, found in the registry
SessionManager_transition_state(new_state) ==
    /\ IF ~can_transition_to(ms.state, new_state)
       THEN /\ ms_last' = StampCall("transition_state", new_state, "InvalidStateTransition", ms_now)
            /\ UNCHANGED ms
       ELSE /\ ms' = [ms EXCEPT !.state = new_state]
            /\ ms_last' = StampCall("transition_state", new_state, "Ok", ms_now)
    /\ UNCHANGED ms_now

stamp_idle ==
    <<engine_vars, state_vars, pipeline_vars, sync_vars, ring_vars, cache_vars, manager_vars,
      rtc_vars, thread_vars, playback_thread_vars, config_vars>>

NextStamp ==
    \/ tick /\ UNCHANGED stamp_idle
    \/ \E new_state \in StampTargets : MediaSession_set_state(new_state) /\ UNCHANGED stamp_idle
    \/ \E new_state \in StampTargets :
          SessionManager_transition_state(new_state) /\ UNCHANGED stamp_idle

SpecStamp == Init /\ [][NextStamp]_vars

\* C34: every successful state change, by set_state or by transition_state,
\* sets updated_at to the time of the change; a rejected transition leaves
\* updated_at alone; updated_at never decreases.
C34_UpdatedAt ==
    [][/\ (ms_last'.op \in {"set_state", "transition_state"} /\ ms_last'.result = "Ok") =>
             ms'.updated_at = ms_now
       /\ ms_last'.result = "InvalidStateTransition" => ms'.updated_at = ms.updated_at
       /\ ms'.updated_at >= ms.updated_at]_vars

\* C35: an insert of a frame whose timestamp is already cached, also into a
\* cache at capacity, succeeds without evicting: the cached timestamps are
\* the same set, the entry holds the new frame, the other entries are as
\* they were, and the entry is the most recently used one.
C35_OverwriteInPlace ==
    [][(fc_last'.op = "insert" /\ fc_last'.timestamp \in DOMAIN fc.frames) =>
          LET ts == fc_last'.timestamp
          IN  /\ fc_last'.result = "Ok"
              /\ fc_last'.evicted = {}
              /\ DOMAIN fc'.frames = DOMAIN fc.frames
              /\ fc'.frames[ts].frame = VideoFrame(ts, fc_last'.width)
              /\ \A other \in DOMAIN fc.frames \ {ts} :
                    /\ fc'.frames[other] = fc.frames[other]
                    /\ fc'.frames[ts].access_count > fc'.frames[other].access_count
              /\ fc_order'[Len(fc_order')] = ts]_vars

\* a cache of two frames, full: the frame at timestamp 1 was stored as the
\* second access and has now been replaced by another as the third
C35_Witness ==
    /\ fc.max_frames = 2
    /\ DOMAIN fc.frames = {0, 1}
    /\ fc.frames[0].access_count = 1
    /\ fc.frames[1] = CacheEntry(VideoFrame(1, 1280), 3)
    /\ fc_last = CacheCall("insert", 1, "Ok", {}, 1280)

\* C40: the access counts of the cached entries are pairwise different and
\* none is above the cache's access counter; the counter never goes down
\* and a get that misses changes nothing; so the entry with the smallest
\* access count, the one an eviction takes, is unique.
C40_AccessCounts ==
    /\ [](/\ \A a, b \in DOMAIN fc.frames :
                a # b => fc.frames[a].access_count # fc.frames[b].access_count
          /\ \A a \in DOMAIN fc.frames : fc.frames[a].access_count <= fc.access_counter
          /\ DOMAIN fc.frames # {} =>
                Cardinality({a \in DOMAIN fc.frames :
                    \A b \in DOMAIN fc.frames :
                        fc.frames[a].access_count <= fc.frames[b].access_count}) = 1)
    /\ [][/\ fc'.access_counter >= fc.access_counter
          /\ (fc_last'.op = "get" /\ fc_last'.result = "None") => fc' = fc]_vars

\* two entries, both used again after their insert, then a get that missed
C40_Witness ==
    /\ Cardinality(DOMAIN fc.frames) = 2
    /\ fc.access_counter = 4
    /\ \A a \in DOMAIN fc.frames : fc.frames[a].access_count > 2
    /\ fc_last.op = "get"
    /\ fc_last.result = "None"

\* -------------------------------------- a pipeline created from a config
SyncThresholds == {DEFAULT_SYNC_THRESHOLD, DEFAULT_SYNC_THRESHOLD + 10}

\* the sync_controller field MediaPipeline::new(config) builds
MediaPipeline_sync_controller(config) == AVSyncController_new

\* frame times as in SyncTimes, and one 45 ms after the start
ConfigTimes == SyncTimes \cup {45}

InitConfig ==
    /\ engine_init /\ state_init
    /\ pipeline_init /\ ring_init /\ cache_init /\ manager_init /\ rtc_init /\ thread_init
    /\ playback_thread_init /\ stamp_init
    /\ \E sync_threshold \in SyncThresholds : pl_config = PipelineConfig(sync_threshold)
    /\ sy = MediaPipeline_sync_controller(pl_config)
    /\ sy_last = NoSyncCall

NextConfig ==
    \/ \E video_timestamp \in ConfigTimes, audio_timestamp \in ConfigTimes :
          sync_frame(video_timestamp, audio_timestamp) /\ UNCHANGED sync_idle
    \/ get_clock /\ UNCHANGED sync_idle

SpecConfig == InitConfig /\ [][NextConfig]_vars

\* C36: the sync controller of a pipeline created with sync_threshold T
\* classifies against T: a frame ahead of audio by at most T, or behind by
\* at most T, is Display, a frame further ahead is Wait and a frame further
\* behind is Drop; 45 ms ahead is Display for T = 50 and Wait for T = 40.
C36_ConfiguredThreshold ==
    sy_last.op = "sync_frame" =>
        LET t_v == sy_last.video_timestamp
            t_a == sy_last.audio_timestamp
            T == pl_config.sync_threshold
        IN  sy_last.decision = IF Abs(t_v - t_a) <= T THEN Display
                               ELSE IF t_v > t_a THEN Wait(t_v - t_a)
                               ELSE Drop

\* C37: an allocation is charged with its size as a mathematical integer,
\* 4 * n for n audio samples, and passes the budget test only if the
\* mathematical sum current + size is within max_memory: whenever the call
\* returns a buffer or changes the byte count, the sum is within the budget
\* and the count has grown by exactly the size.
C37_NoWraparound ==
    bm_last.op \in Allocations =>
        LET granted == bm_last.result = "Ok" \/ bm.current_memory # bm_last.before
        IN  granted =>
                /\ bm_last.before + bm_last.requested <= bm.config.max_memory
                /\ bm.current_memory = bm_last.before + bm_last.requested

\* ------------------------------ the jitter buffer, arrivals and deliveries
\* packets of one short window across the wrap; a packet may arrive again
WindowPackets == {packet \in JitterPackets : packet.sequence_number # HALF_RANGE}

InitJitterFlow ==
    /\ engine_init /\ state_init
    /\ pipeline_init /\ sync_init /\ ring_init /\ cache_init /\ manager_init
    /\ \E cap \in 1..MaxJitter : jb = JitterBuffer_new(cap)
    /\ jb_script = <<>>
    /\ jb_out = <<>>
    /\ jb_last = NoJitterCall
    /\ packetizer_init /\ thread_init /\ other_init

arrive(packet) ==
    /\ JitterBuffer_insert(packet)
    /\ UNCHANGED <<jb_script, jb_out>>

\* the receiver takes at most MaxJitter packets
deliver ==
    /\ Len(jb_out) < MaxJitter
    /\ drain

NextJitterFlow ==
    \/ \E packet \in WindowPackets : arrive(packet) /\ UNCHANGED order_idle
    \/ deliver /\ UNCHANGED order_idle

SpecJitterFlow == InitJitterFlow /\ [][NextJitterFlow]_vars

\* C38 as stated: over any interleaving of insert and get_next with
\* sequence numbers of one window, no sequence number is delivered twice
\* and no delivery precedes an earlier one in modular order, late and
\* repeated arrivals included.
C38_DeliveredOnceInOrder ==
    \A i, j \in 1..Len(jb_out) :
        i < j =>
            LET back == (jb_out[i].sequence_number - jb_out[j].sequence_number + 65536) % 65536
            IN  back >= 32768

\* C38, amended: get_next delivers the packet at next_expected_seq and moves
\* next_expected_seq on by one; next_expected_seq, once set, is moved by
\* nothing else but an accepted insert of a sequence number that precedes
\* it in modular order, which moves it back to that number. So deliveries
\* go forward one by one until such a late packet arrives, and a late
\* packet is delivered (again).
C38_RewindOnlyByLatePacket ==
    [][/\ (jb_last'.op = "get_next" /\ jb_last'.result = "Some") =>
             /\ jb.next_expected_seq = Some(jb_last'.sequence_number)
             /\ jb'.next_expected_seq = Some((jb_last'.sequence_number + 1) % 65536)
       /\ (jb.next_expected_seq.is_some /\ jb'.next_expected_seq # jb.next_expected_seq
              /\ ~(jb_last'.op = "get_next" /\ jb_last'.result = "Some")) =>
             /\ jb_last'.op = "insert"
             /\ jb_last'.result = "Ok"
             /\ (jb.next_expected_seq.value - jb_last'.sequence_number + 65536) % 65536
                    \in 1..32767
             /\ jb'.next_expected_seq = Some(jb_last'.sequence_number)]_vars

\* 65535 was delivered, arrived again and was delivered again
C38_Witness ==
    /\ Len(jb_out) >= 2
    /\ jb_out[1].sequence_number = 65535
    /\ jb_out[2].sequence_number = 65535
    /\ jb_last.op = "get_next"

\* C39 as stated: whenever the packet at next_expected_seq is missing, an
\* insert of a packet with that sequence number is accepted and leaves
\* next_expected_seq on it, so that the next get_next returns it, also in
\* a buffer filled to capacity with later packets.
C39_GapCanBeFilled ==
    [][(/\ jb_last'.op = "insert"
        /\ jb.next_expected_seq = Some(jb_last'.sequence_number)
        /\ jb_last'.sequence_number \notin DOMAIN jb.packets) =>
          /\ jb_last'.result = "Ok"
          /\ jb_last'.sequence_number \in DOMAIN jb'.packets
          /\ jb'.next_expected_seq = jb.next_expected_seq]_vars

\* C39, amended: when the packet at next_expected_seq is missing, an insert
\* of a packet with that sequence number into a buffer holding fewer than
\* capacity packets is accepted, stores the packet and leaves
\* next_expected_seq on it, so that the next get_next returns it; into a
\* buffer filled to capacity with later packets it is rejected with
\* OutOfMemory and the buffer stays as it was.
C39_GapFilledUnlessFull ==
    [][(/\ jb_last'.op = "insert"
        /\ jb.next_expected_seq = Some(jb_last'.sequence_number)
        /\ jb_last'.sequence_number \notin DOMAIN jb.packets) =>
          IF Cardinality(DOMAIN jb.packets) < jb.capacity
          THEN /\ jb_last'.result = "Ok"
               /\ DOMAIN jb'.packets = DOMAIN jb.packets \cup {jb_last'.sequence_number}
               /\ jb'.packets[jb_last'.sequence_number].payload = jb_last'.payload
               /\ jb'.next_expected_seq = jb.next_expected_seq
          ELSE /\ jb_last'.result = "OutOfMemory"
               /\ jb' = jb]_vars

\* 65535 went out, 1 fills the buffer of one packet, and 0 was turned away
C39_Witness ==
    /\ jb.capacity = 1
    /\ DOMAIN jb.packets = {1}
    /\ jb.next_expected_seq = Some(0)
    /\ jb_last = JitterCall("insert", 0, <<1>>, "OutOfMemory")

====
